---- MODULE Spec2Model ----
(***************************************************************************)
(* Model of the naming-convention converter: the style classifier and      *)
(* converter of DynamicNamingConverter, its skip policy, the rewrite of    *)
(* one file guarded by a re-parse, the directory walk, and the legacy      *)
(* NamingConverter.  Identifiers and file text are sequences of            *)
(* one-character strings, so that every regular expression and string      *)
(* method of the source is computed character by character.                *)
(***************************************************************************)
EXTENDS Integers, Sequences, FiniteSets, TLC

(***************************************************************************)
(* Characters and the string methods of the source language.               *)
(***************************************************************************)
LowerLetters ==
    <<"a","b","c","d","e","f","g","h","i","j","k","l","m",
      "n","o","p","q","r","s","t","u","v","w","x","y","z">>

UpperLetters ==
    <<"A","B","C","D","E","F","G","H","I","J","K","L","M",
      "N","O","P","Q","R","S","T","U","V","W","X","Y","Z">>

DigitChars == {"0","1","2","3","4","5","6","7","8","9"}

\* c.islower() / c.isupper() / [A-Z] / [a-z] on one ASCII character
IsLowerChar(c) == \E i \in 1..26 : LowerLetters[i] = c

IsUpperChar(c) == \E i \in 1..26 : UpperLetters[i] = c

IsDigitChar(c) == c \in DigitChars

\* \w of the regular expressions: letter, digit or underscore
IsWordChar(c) == IsLowerChar(c) \/ IsUpperChar(c) \/ IsDigitChar(c) \/ c = "_"

IsQuoteChar(c) == c = "\"" \/ c = "'"

LetterIndex(c, letters) == CHOOSE i \in 1..26 : letters[i] = c

\* c.lower() and c.upper()
LowerChar(c) == IF IsUpperChar(c) THEN LowerLetters[LetterIndex(c, UpperLetters)] ELSE c

UpperChar(c) == IF IsLowerChar(c) THEN UpperLetters[LetterIndex(c, LowerLetters)] ELSE c

\* s.lower() and s.upper()
StrLower(s) == [i \in 1..Len(s) |-> LowerChar(s[i])]

StrUpper(s) == [i \in 1..Len(s) |-> UpperChar(s[i])]

\* s.islower(): at least one cased character and no uppercase one
StrIsLower(s) ==
    /\ \E i \in 1..Len(s) : IsLowerChar(s[i])
    /\ \A i \in 1..Len(s) : ~IsUpperChar(s[i])

\* '_' in s
HasUnderscore(s) == \E i \in 1..Len(s) : s[i] = "_"

\* s[k:] (k is a 0-based offset, as in the source)
DropFirst(s, k) == SubSeq(s, k + 1, Len(s))

\* s.startswith(p)
StartsWith(s, p) == Len(s) >= Len(p) /\ SubSeq(s, 1, Len(p)) = p

\* p in s (substring test)
Contains(s, p) == \E i \in 1..(Len(s) - Len(p) + 1) : SubSeq(s, i, i + Len(p) - 1) = p

\* s.split('_'): the pieces between underscores, empty pieces kept
RECURSIVE SplitFrom(_, _, _)
SplitFrom(s, i, cur) ==
    IF i > Len(s) THEN <<cur>>
    ELSE IF s[i] = "_" THEN <<cur>> \o SplitFrom(s, i + 1, <<>>)
    ELSE SplitFrom(s, i + 1, Append(cur, s[i]))

SplitUnderscore(s) == SplitFrom(s, 1, <<>>)

(***************************************************************************)
(* Naming styles, identifier kinds and preferences.                        *)
(***************************************************************************)
NamingStyle == {"snake_case", "camelCase", "PascalCase", "SCREAMING_SNAKE_CASE"}

\* detect_style returns None when no rule applies
NoStyle == "None"

IdentifierType ==
    {"variable", "function", "class", "method", "argument", "attribute",
     "constant", "unknown"}

\* The defaults of the NamingPreferences dataclass
DefaultPreferences ==
    [variables |-> "snake_case", functions |-> "camelCase", classes |-> "PascalCase",
     constants |-> "SCREAMING_SNAKE_CASE", methods |-> "camelCase",
     arguments |-> "snake_case", attributes |-> "snake_case",
     preserve_private |-> TRUE, preserve_constants |-> TRUE]

\* The presets shipped with the configuration module
PythonStandard ==
    [DefaultPreferences EXCEPT !.functions = "snake_case", !.methods = "snake_case"]

JavaStyle ==
    [DefaultPreferences EXCEPT !.variables = "camelCase", !.arguments = "camelCase",
                               !.attributes = "camelCase"]

\* Python's reserved words and the built-ins the converter never renames
RESERVED == {
    <<"F","a","l","s","e">>, <<"N","o","n","e">>, <<"T","r","u","e">>, <<"a","n","d">>,
    <<"a","s">>, <<"a","s","s","e","r","t">>, <<"a","s","y","n","c">>, <<"a","w","a","i","t">>,
    <<"b","r","e","a","k">>, <<"c","l","a","s","s">>, <<"c","o","n","t","i","n","u","e">>,
    <<"d","e","f">>, <<"d","e","l">>, <<"e","l","i","f">>, <<"e","l","s","e">>,
    <<"e","x","c","e","p","t">>, <<"f","i","n","a","l","l","y">>, <<"f","o","r">>,
    <<"f","r","o","m">>, <<"g","l","o","b","a","l">>, <<"i","f">>, <<"i","m","p","o","r","t">>,
    <<"i","n">>, <<"i","s">>, <<"l","a","m","b","d","a">>, <<"n","o","n","l","o","c","a","l">>,
    <<"n","o","t">>, <<"o","r">>, <<"p","a","s","s">>, <<"r","a","i","s","e">>,
    <<"r","e","t","u","r","n">>, <<"t","r","y">>, <<"w","h","i","l","e">>, <<"w","i","t","h">>,
    <<"y","i","e","l","d">>, <<"s","e","l","f">>, <<"c","l","s">>, <<"p","r","i","n","t">>,
    <<"l","e","n">>, <<"r","a","n","g","e">>, <<"s","t","r">>, <<"i","n","t">>,
    <<"f","l","o","a","t">>, <<"l","i","s","t">>, <<"d","i","c","t">>, <<"s","e","t">>,
    <<"t","u","p","l","e">>, <<"b","o","o","l">>, <<"t","y","p","e">>, <<"o","b","j","e","c","t">>,
    <<"s","u","p","e","r">>, <<"i","s","i","n","s","t","a","n","c","e">>,
    <<"i","s","s","u","b","c","l","a","s","s">>, <<"h","a","s","a","t","t","r">>,
    <<"g","e","t","a","t","t","r">>, <<"s","e","t","a","t","t","r">>,
    <<"d","e","l","a","t","t","r">>, <<"o","p","e","n">>, <<"f","i","l","e">>,
    <<"i","n","p","u","t">>, <<"e","n","u","m","e","r","a","t","e">>, <<"z","i","p">>,
    <<"m","a","p">>, <<"f","i","l","t","e","r">>, <<"s","o","r","t","e","d">>,
    <<"r","e","v","e","r","s","e","d">>, <<"s","u","m">>, <<"m","i","n">>, <<"m","a","x">>,
    <<"a","b","s">>, <<"r","o","u","n","d">>, <<"p","o","w">>, <<"d","i","v","m","o","d">>,
    <<"h","e","x">>, <<"o","c","t">>, <<"b","i","n">>, <<"f","o","r","m","a","t">>,
    <<"r","e","p","r">>, <<"h","a","s","h">>, <<"i","d">>, <<"d","i","r">>, <<"v","a","r","s">>,
    <<"l","o","c","a","l","s">>, <<"g","l","o","b","a","l","s">>,
    <<"s","t","a","t","i","c","m","e","t","h","o","d">>,
    <<"c","l","a","s","s","m","e","t","h","o","d">>, <<"p","r","o","p","e","r","t","y">>,
    <<"c","a","l","l","a","b","l","e">>, <<"i","t","e","r">>, <<"n","e","x","t">>,
    <<"s","l","i","c","e">>, <<"f","r","o","z","e","n","s","e","t">>, <<"b","y","t","e","s">>,
    <<"b","y","t","e","a","r","r","a","y">>, <<"m","e","m","o","r","y","v","i","e","w">>,
    <<"c","o","m","p","l","e","x">>, <<"E","x","c","e","p","t","i","o","n">>,
    <<"B","a","s","e","E","x","c","e","p","t","i","o","n">>,
    <<"V","a","l","u","e","E","r","r","o","r">>, <<"T","y","p","e","E","r","r","o","r">>,
    <<"K","e","y","E","r","r","o","r">>, <<"I","n","d","e","x","E","r","r","o","r">>,
    <<"A","t","t","r","i","b","u","t","e","E","r","r","o","r">>,
    <<"I","m","p","o","r","t","E","r","r","o","r">>,
    <<"R","u","n","t","i","m","e","E","r","r","o","r">>,
    <<"S","t","o","p","I","t","e","r","a","t","i","o","n">>,
    <<"G","e","n","e","r","a","t","o","r","E","x","i","t">>,
    <<"S","y","s","t","e","m","E","x","i","t">>,
    <<"K","e","y","b","o","a","r","d","I","n","t","e","r","r","u","p","t">>
    }

\* DUNDER_PATTERN = ^__[a-z_]+__$
DunderPattern(s) ==
    /\ Len(s) >= 5
    /\ s[1] = "_" /\ s[2] = "_" /\ s[Len(s) - 1] = "_" /\ s[Len(s)] = "_"
    /\ \A i \in 3..(Len(s) - 2) : IsLowerChar(s[i]) \/ s[i] = "_"

\* CONSTANT_PATTERN = ^[A-Z][A-Z0-9_]*$
ConstantPattern(s) ==
    /\ Len(s) >= 1
    /\ IsUpperChar(s[1])
    /\ \A i \in 2..Len(s) : IsUpperChar(s[i]) \/ IsDigitChar(s[i]) \/ s[i] = "_"

(***************************************************************************)
(* Style detection.                                                        *)
(***************************************************************************)
\* Mutant: the rules without the last one, for names with an underscore
\* that are not entirely lowercase
detect_style_NoLastRule(name) ==
    IF Len(name) < 2 THEN NoStyle
    ELSE IF ConstantPattern(name) THEN "SCREAMING_SNAKE_CASE"
    ELSE IF IsUpperChar(name[1]) /\ ~HasUnderscore(name)
            /\ (\E i \in 1..Len(name) : IsLowerChar(name[i])) THEN "PascalCase"
    ELSE IF HasUnderscore(name) /\ StrIsLower(name) THEN "snake_case"
    ELSE IF IsLowerChar(name[1]) /\ (\E i \in 1..Len(name) : IsUpperChar(name[i]))
            /\ ~HasUnderscore(name) THEN "camelCase"
    ELSE IF StrIsLower(name) /\ ~HasUnderscore(name) THEN "snake_case"
    ELSE NoStyle

\* Mutant: the rules without the length test in front of them
detect_style_NoLengthTest(name) ==
    IF ConstantPattern(name) THEN "SCREAMING_SNAKE_CASE"
    ELSE IF HasUnderscore(name) \/ StrIsLower(name) THEN "snake_case"
    ELSE IF IsUpperChar(name[1]) THEN "PascalCase"
    ELSE "camelCase"

detect_style(name) ==
    IF Len(name) < 2 THEN NoStyle
    ELSE IF ConstantPattern(name) THEN "SCREAMING_SNAKE_CASE"
    ELSE IF IsUpperChar(name[1]) /\ ~HasUnderscore(name)
            /\ (\E i \in 1..Len(name) : IsLowerChar(name[i])) THEN "PascalCase"
    ELSE IF HasUnderscore(name) /\ StrIsLower(name) THEN "snake_case"
    ELSE IF IsLowerChar(name[1]) /\ (\E i \in 1..Len(name) : IsUpperChar(name[i]))
            /\ ~HasUnderscore(name) THEN "camelCase"
    ELSE IF StrIsLower(name) /\ ~HasUnderscore(name) THEN "snake_case"
    ELSE IF HasUnderscore(name) THEN "snake_case"
    ELSE NoStyle

(***************************************************************************)
(* Conversion functions.                                                   *)
(***************************************************************************)
\* re.sub(r'([A-Z])', r'_\1', s): an underscore before every capital
RECURSIVE UnderscoreBeforeCapitals(_)
\* Mutant: no underscore is put before the capitals
UnderscoreBeforeCapitals_None(s) == s

UnderscoreBeforeCapitals(s) ==
    IF s = <<>> THEN <<>>
    ELSE (IF IsUpperChar(Head(s)) THEN <<"_", Head(s)>> ELSE <<Head(s)>>)
         \o UnderscoreBeforeCapitals(Tail(s))

\* Length of the run of capitals of s that starts at position i
RECURSIVE CapitalRun(_, _)
CapitalRun(s, i) ==
    IF i <= Len(s) /\ IsUpperChar(s[i]) THEN 1 + CapitalRun(s, i + 1) ELSE 0

\* re.sub(r'([A-Z]+)([A-Z][a-z])', r'\1_\2', s), scanning from position i:
\* the greedy [A-Z]+ gives back one capital, so a match starts at i exactly
\* when the run of capitals from i has length m >= 2 and a lowercase letter
\* follows it; the underscore goes before the last capital of the run.
RECURSIVE SplitCapitalRuns(_, _)
SplitCapitalRuns(s, i) ==
    IF i > Len(s) THEN <<>>
    ELSE LET m == CapitalRun(s, i) IN
         IF m >= 2 /\ i + m <= Len(s) /\ IsLowerChar(s[i + m])
         THEN SubSeq(s, i, i + m - 2) \o <<"_">> \o SubSeq(s, i + m - 1, i + m)
              \o SplitCapitalRuns(s, i + m + 1)
         ELSE <<s[i]>> \o SplitCapitalRuns(s, i + 1)

to_snake_case(name) ==
    IF name = <<>> THEN name
    ELSE LET r1 == UnderscoreBeforeCapitals(name)
             r2 == IF StartsWith(r1, <<"_">>) /\ ~StartsWith(name, <<"_">>)
                   THEN DropFirst(r1, 1) ELSE r1
         IN StrLower(SplitCapitalRuns(r2, 1))

\* part[0].upper() + part[1:] for a non-empty part, nothing for an empty one
Capitalized(part) ==
    IF part = <<>> THEN <<>> ELSE <<UpperChar(part[1])>> \o DropFirst(part, 1)

RECURSIVE JoinCapitalized(_)
JoinCapitalized(parts) ==
    IF parts = <<>> THEN <<>>
    ELSE Capitalized(Head(parts)) \o JoinCapitalized(Tail(parts))

to_camel_case(name) ==
    IF name = <<>> THEN name
    ELSE IF detect_style(name) = "camelCase" THEN name
    ELSE IF HasUnderscore(name)
         THEN LET parts == SplitUnderscore(StrLower(name))
              IN parts[1] \o JoinCapitalized(Tail(parts))
    ELSE IF IsUpperChar(name[1]) THEN <<LowerChar(name[1])>> \o DropFirst(name, 1)
    ELSE name

to_pascal_case(name) ==
    IF name = <<>> THEN name
    ELSE IF detect_style(name) = "PascalCase" THEN name
    ELSE IF HasUnderscore(name)
         THEN JoinCapitalized(SplitUnderscore(StrLower(name)))
    ELSE IF IsLowerChar(name[1]) THEN <<UpperChar(name[1])>> \o DropFirst(name, 1)
    ELSE name

to_screaming_snake_case(name) == StrUpper(to_snake_case(name))

convert_to_style(name, target_style) ==
    IF target_style = "snake_case" THEN to_snake_case(name)
    ELSE IF target_style = "camelCase" THEN to_camel_case(name)
    ELSE IF target_style = "PascalCase" THEN to_pascal_case(name)
    ELSE IF target_style = "SCREAMING_SNAKE_CASE" THEN to_screaming_snake_case(name)
    ELSE name

(***************************************************************************)
(* Skip policy and target styles.                                          *)
(***************************************************************************)
should_skip(name, preferences) ==
    \/ Len(name) < 2
    \/ name \in RESERVED
    \/ DunderPattern(name)
    \/ (preferences.preserve_private /\ StartsWith(name, <<"_">>))
    \/ (preferences.preserve_constants /\ ConstantPattern(name))

get_target_style(id_type, preferences) ==
    CASE id_type = "variable" -> preferences.variables
      [] id_type = "function" -> preferences.functions
      [] id_type = "class" -> preferences.classes
      [] id_type = "method" -> preferences.methods
      [] id_type = "argument" -> preferences.arguments
      [] id_type = "attribute" -> preferences.attributes
      [] id_type = "constant" -> preferences.constants
      [] OTHER -> "snake_case"

\* Mutant: the skip test is left out
needs_conversion_NoSkip(name, id_type, preferences) ==
    detect_style(name) # get_target_style(id_type, preferences)

needs_conversion(name, id_type, preferences) ==
    IF should_skip(name, preferences) THEN FALSE
    ELSE detect_style(name) # get_target_style(id_type, preferences)

(***************************************************************************)
(* File text and its parse.  A file's text is a sequence of lines, each a  *)
(* sequence of characters.  ParseModule stands for ast.parse on the        *)
(* statement forms the model's files use:                                  *)
(*     NAME = expr        obj.NAME = expr        pass        expr          *)
(*     NAME, NAME = expr  NAME: expr [= expr]    obj.NAME: expr [= expr]   *)
(*     def NAME(params): simple-statement                                  *)
(*     class NAME: simple-statement                                        *)
(*     class NAME:  followed by a block of lines indented by one space     *)
(* A word that is a keyword or starts with a digit is no identifier, so a  *)
(* rewrite that produces one makes the text unparseable.                   *)
(***************************************************************************)
\* The keywords of the language: never legal as an identifier
Keywords == {
    <<"F","a","l","s","e">>, <<"N","o","n","e">>, <<"T","r","u","e">>, <<"a","n","d">>,
    <<"a","s">>, <<"a","s","s","e","r","t">>, <<"a","s","y","n","c">>, <<"a","w","a","i","t">>,
    <<"b","r","e","a","k">>, <<"c","l","a","s","s">>, <<"c","o","n","t","i","n","u","e">>,
    <<"d","e","f">>, <<"d","e","l">>, <<"e","l","i","f">>, <<"e","l","s","e">>,
    <<"e","x","c","e","p","t">>, <<"f","i","n","a","l","l","y">>, <<"f","o","r">>,
    <<"f","r","o","m">>, <<"g","l","o","b","a","l">>, <<"i","f">>, <<"i","m","p","o","r","t">>,
    <<"i","n">>, <<"i","s">>, <<"l","a","m","b","d","a">>, <<"n","o","n","l","o","c","a","l">>,
    <<"n","o","t">>, <<"o","r">>, <<"p","a","s","s">>, <<"r","a","i","s","e">>,
    <<"r","e","t","u","r","n">>, <<"t","r","y">>, <<"w","h","i","l","e">>, <<"w","i","t","h">>,
    <<"y","i","e","l","d">>
    }

\* The keywords that are expressions
ValueKeywords == {<<"T","r","u","e">>, <<"F","a","l","s","e">>, <<"N","o","n","e">>}

\* The implicit receiver parameters, which the extractor leaves out
ReceiverNames == {<<"s","e","l","f">>, <<"c","l","s">>}

ParseFailure == [ok |-> FALSE, body |-> <<>>]

\* Position after the run of word characters that starts at i
RECURSIVE WordEnd(_, _)
WordEnd(line, i) ==
    IF i <= Len(line) /\ IsWordChar(line[i]) THEN WordEnd(line, i + 1) ELSE i

\* Position of the quote q that closes a string opened before i, 0 if none
RECURSIVE StringEnd(_, _, _)
StringEnd(line, i, q) ==
    IF i > Len(line) THEN 0
    ELSE IF line[i] = q THEN i
    ELSE StringEnd(line, i + 1, q)

\* The tokens of a line from position i: words, string literals, operators;
\* blanks separate tokens and a '#' starts a comment that ends the line
RECURSIVE Tokenize(_, _)
Tokenize(line, i) ==
    IF i > Len(line) THEN <<>>
    ELSE IF line[i] = " " THEN Tokenize(line, i + 1)
    ELSE IF line[i] = "#" THEN <<>>
    ELSE IF IsWordChar(line[i])
         THEN LET e == WordEnd(line, i)
              IN <<[k |-> "word", s |-> SubSeq(line, i, e - 1)]>> \o Tokenize(line, e)
    ELSE IF IsQuoteChar(line[i])
         THEN LET e == StringEnd(line, i + 1, line[i])
              IN IF e = 0 THEN <<[k |-> "bad", s |-> <<line[i]>>]>>
                 ELSE <<[k |-> "str", s |-> SubSeq(line, i, e)]>> \o Tokenize(line, e + 1)
    ELSE <<[k |-> "op", s |-> <<line[i]>>]>> \o Tokenize(line, i + 1)

\* Number of blanks a line starts with
RECURSIVE Indent(_)
Indent(line) ==
    IF line # <<>> /\ Head(line) = " " THEN 1 + Indent(Tail(line)) ELSE 0

IsOp(t, c) == t.k = "op" /\ t.s = <<c>>

IsKeywordTok(t, w) == t.k = "word" /\ t.s = w

IsNameTok(t) == t.k = "word" /\ ~IsDigitChar(t.s[1]) /\ t.s \notin Keywords

IsNumberTok(t) == t.k = "word" /\ \A i \in 1..Len(t.s) : IsDigitChar(t.s[i])

IsExprTok(t) == IsNameTok(t) \/ IsNumberTok(t) \/ t.k = "str" \/ (t.k = "word" /\ t.s \in ValueKeywords)

\* The Name nodes of an expression token: the name itself, if it is one
ExprNames(t) == IF IsNameTok(t) THEN {t.s} ELSE {}

\* A simple statement from its tokens; node "Bad" when the tokens are none.
\* names holds the ids of the statement's Name nodes, attrs the attr of its
\* Attribute nodes
ParseSimple(toks) ==
    IF Len(toks) = 1 /\ IsKeywordTok(toks[1], <<"p","a","s","s">>)
    THEN [node |-> "Pass", names |-> {}, attrs |-> {}]
    ELSE IF Len(toks) = 1 /\ IsExprTok(toks[1])
    THEN [node |-> "Expr", names |-> ExprNames(toks[1]), attrs |-> {}]
    ELSE IF Len(toks) = 3 /\ IsNameTok(toks[1]) /\ IsOp(toks[2], "=") /\ IsExprTok(toks[3])
    THEN [node |-> "Assign", target |-> "Name", id |-> toks[1].s,
          names |-> {toks[1].s} \cup ExprNames(toks[3]), attrs |-> {}]
    ELSE IF Len(toks) = 5 /\ IsNameTok(toks[1]) /\ IsOp(toks[2], ".") /\ IsNameTok(toks[3])
            /\ IsOp(toks[4], "=") /\ IsExprTok(toks[5])
    THEN [node |-> "Assign", target |-> "Attribute", id |-> toks[3].s,
          names |-> {toks[1].s} \cup ExprNames(toks[5]), attrs |-> {toks[3].s}]
    ELSE IF Len(toks) = 5 /\ IsNameTok(toks[1]) /\ IsOp(toks[2], ",") /\ IsNameTok(toks[3])
            /\ IsOp(toks[4], "=") /\ IsExprTok(toks[5])
    THEN [node |-> "Assign", target |-> "Tuple", elts |-> <<toks[1].s, toks[3].s>>,
          names |-> {toks[1].s, toks[3].s} \cup ExprNames(toks[5]), attrs |-> {}]
    ELSE IF Len(toks) \in {3, 5} /\ IsNameTok(toks[1]) /\ IsOp(toks[2], ":") /\ IsExprTok(toks[3])
            /\ (Len(toks) = 5 => IsOp(toks[4], "=") /\ IsExprTok(toks[5]))
    THEN [node |-> "AnnAssign", target |-> "Name", id |-> toks[1].s,
          names |-> {toks[1].s} \cup ExprNames(toks[3])
                    \cup (IF Len(toks) = 5 THEN ExprNames(toks[5]) ELSE {}),
          attrs |-> {}]
    ELSE IF Len(toks) \in {5, 7} /\ IsNameTok(toks[1]) /\ IsOp(toks[2], ".") /\ IsNameTok(toks[3])
            /\ IsOp(toks[4], ":") /\ IsExprTok(toks[5])
            /\ (Len(toks) = 7 => IsOp(toks[6], "=") /\ IsExprTok(toks[7]))
    THEN [node |-> "AnnAssign", target |-> "Attribute", id |-> toks[3].s,
          names |-> {toks[1].s} \cup ExprNames(toks[5])
                    \cup (IF Len(toks) = 7 THEN ExprNames(toks[7]) ELSE {}),
          attrs |-> {toks[3].s}]
    ELSE [node |-> "Bad"]

\* Position of the first ')' token, 0 if none
RECURSIVE CloseParen(_, _)
CloseParen(toks, i) ==
    IF i > Len(toks) THEN 0
    ELSE IF IsOp(toks[i], ")") THEN i
    ELSE CloseParen(toks, i + 1)

\* Marks a malformed parameter list ("!" is no identifier)
BadParams == <<[name |-> <<"!">>, kind |-> "bad"]>>

\* The parameters of toks[i..j], items NAME, *NAME and **NAME separated by
\* commas: at most one *NAME, **NAME only as the last item.  Each parameter
\* goes with the field of ast.arguments that holds it: args, vararg,
\* kwonlyargs (the names behind *NAME) or kwarg
RECURSIVE ParamItems(_, _, _, _)
ParamItems(toks, i, j, star) ==
    LET stars == IF IsOp(toks[i], "*")
                 THEN (IF i < j /\ IsOp(toks[i + 1], "*") THEN 2 ELSE 1)
                 ELSE 0
        n == i + stars
    IN IF n > j \/ ~IsNameTok(toks[n]) THEN BadParams
       ELSE IF stars = 2
       THEN (IF n = j THEN <<[name |-> toks[n].s, kind |-> "kwarg"]>> ELSE BadParams)
       ELSE IF stars = 1 /\ star THEN BadParams
       ELSE LET item == [name |-> toks[n].s,
                         kind |-> IF stars = 1 THEN "vararg"
                                  ELSE IF star THEN "kwonly" ELSE "arg"]
            IN IF n = j THEN <<item>>
               ELSE IF ~IsOp(toks[n + 1], ",") \/ n + 1 = j THEN BadParams
               ELSE LET rest == ParamItems(toks, n + 2, j, star \/ stars = 1)
                    IN IF rest = BadParams THEN BadParams ELSE <<item>> \o rest

ParseParams(toks, i, j) == IF i > j THEN <<>> ELSE ParamItems(toks, i, j, FALSE)

\* A statement on one line: def, class with an inline body, or simple
ParseStatement(toks) ==
    LET Function(c) ==
            LET Node(params, body) ==
                    IF params = BadParams \/ body.node = "Bad"
                    THEN [node |-> "Bad"]
                    ELSE [node |-> "FunctionDef", name |-> toks[2].s, args |-> params,
                          body |-> <<body>>]
            IN IF Len(toks) >= 6 /\ IsNameTok(toks[2]) /\ IsOp(toks[3], "(") /\ c >= 4
                  /\ c + 2 <= Len(toks) /\ IsOp(toks[c + 1], ":")
               THEN Node(ParseParams(toks, 4, c - 1),
                         ParseSimple(SubSeq(toks, c + 2, Len(toks))))
               ELSE [node |-> "Bad"]
        Class(body) ==
            IF body.node = "Bad" THEN [node |-> "Bad"]
            ELSE [node |-> "ClassDef", name |-> toks[2].s, body |-> <<body>>]
    IN IF Len(toks) >= 1 /\ IsKeywordTok(toks[1], <<"d","e","f">>)
       THEN Function(CloseParen(toks, 1))
       ELSE IF Len(toks) >= 1 /\ IsKeywordTok(toks[1], <<"c","l","a","s","s">>)
       THEN IF Len(toks) >= 4 /\ IsNameTok(toks[2]) /\ IsOp(toks[3], ":")
            THEN Class(ParseSimple(SubSeq(toks, 4, Len(toks))))
            ELSE [node |-> "Bad"]
       ELSE ParseSimple(toks)

\* A class header that opens a block: class NAME:
IsClassHeader(toks) ==
    Len(toks) = 3 /\ IsKeywordTok(toks[1], <<"c","l","a","s","s">>)
    /\ IsNameTok(toks[2]) /\ IsOp(toks[3], ":")

\* A function header that opens a block: def NAME(params):
IsDefHeader(toks) ==
    /\ Len(toks) >= 5
    /\ IsKeywordTok(toks[1], <<"d","e","f">>)
    /\ IsNameTok(toks[2])
    /\ IsOp(toks[3], "(")
    /\ CloseParen(toks, 1) = Len(toks) - 1
    /\ IsOp(toks[Len(toks)], ":")
    /\ ParseParams(toks, 4, Len(toks) - 2) # BadParams

\* The definition node of a header line, with the statements of its block
HeaderNode(toks, body) ==
    IF IsClassHeader(toks)
    THEN [node |-> "ClassDef", name |-> toks[2].s, body |-> body]
    ELSE [node |-> "FunctionDef", name |-> toks[2].s,
          args |-> ParseParams(toks, 4, Len(toks) - 2), body |-> body]

\* The first line from i on that holds a statement, Len(lines) + 1 if none
RECURSIVE NextStatement(_, _)
NextStatement(lines, i) ==
    IF i > Len(lines) THEN i
    ELSE IF Tokenize(lines[i], 1) = <<>> THEN NextStatement(lines, i + 1)
    ELSE i

\* The statements indented by level blanks from line i on; blank and comment
\* lines are passed over, the block ends at the first statement that is
\* indented less, and a statement that is indented more is an error.  The
\* block behind a header line is indented as its first statement is
RECURSIVE ParseBlock(_, _, _)
ParseBlock(lines, i, level) ==
    LET failure == [ok |-> FALSE, body |-> <<>>, next |-> i]
        Sequel(node, rest) ==
            IF ~rest.ok THEN failure
            ELSE [ok |-> TRUE, body |-> <<node>> \o rest.body, next |-> rest.next]
        Block(toks, blk) ==
            IF ~blk.ok THEN failure
            ELSE Sequel(HeaderNode(toks, blk.body), ParseBlock(lines, blk.next, level))
        Header(toks, first) ==
            IF first > Len(lines) \/ Indent(lines[first]) <= level THEN failure
            ELSE Block(toks, ParseBlock(lines, first, Indent(lines[first])))
        Statement(st) ==
            IF st.node = "Bad" THEN failure
            ELSE Sequel(st, ParseBlock(lines, i + 1, level))
        Line(toks) ==
            IF toks = <<>> THEN ParseBlock(lines, i + 1, level)
            ELSE IF Indent(lines[i]) < level THEN [ok |-> TRUE, body |-> <<>>, next |-> i]
            ELSE IF Indent(lines[i]) > level THEN failure
            ELSE IF IsClassHeader(toks) \/ IsDefHeader(toks)
            THEN Header(toks, NextStatement(lines, i + 1))
            ELSE Statement(ParseStatement(toks))
    IN IF i > Len(lines) THEN [ok |-> TRUE, body |-> <<>>, next |-> i]
       ELSE Line(Tokenize(lines[i], 1))

\* ast.parse(content): the module's statements, or failure (SyntaxError)
ParseModule(content) ==
    LET Module(tree) == IF tree.ok THEN [ok |-> TRUE, body |-> tree.body] ELSE ParseFailure
    IN Module(ParseBlock(content, 1, 0))

(***************************************************************************)
(* Identifier extraction: the IdentifierVisitor walk of the parsed tree.   *)
(***************************************************************************)
\* The kind the visitor gives the plain name on the left of an assignment
AssignedNameType(name, in_class, in_function) ==
    IF ConstantPattern(name) THEN "constant"
    ELSE IF in_class /\ ~in_function THEN "attribute"
    ELSE "variable"

\* The loop over node.args.args: the plain parameters as argument records,
\* those named self or cls left out
RECURSIVE ArgumentInfos(_)
ArgumentInfos(args) ==
    IF args = <<>> THEN <<>>
    ELSE (IF Head(args).kind # "arg" \/ Head(args).name \in ReceiverNames THEN <<>>
          ELSE <<[name |-> Head(args).name, type |-> "argument"]>>)
         \o ArgumentInfos(Tail(args))

RECURSIVE VisitNode(_, _, _)
RECURSIVE VisitBody(_, _, _)
\* visit_ClassDef / visit_FunctionDef / visit_Assign / visit_AnnAssign on one
\* statement
VisitNode(st, in_class, in_function) ==
    IF st.node = "ClassDef"
    THEN <<[name |-> st.name, type |-> "class"]>> \o VisitBody(st.body, TRUE, in_function)
    ELSE IF st.node = "FunctionDef"
    THEN <<[name |-> st.name, type |-> IF in_class THEN "method" ELSE "function"]>>
         \o ArgumentInfos(st.args)
         \o VisitBody(st.body, in_class, TRUE)
    ELSE IF st.node = "Assign"
    THEN IF st.target = "Name"
         THEN <<[name |-> st.id, type |-> AssignedNameType(st.id, in_class, in_function)]>>
         ELSE IF st.target = "Attribute"
         THEN <<[name |-> st.id, type |-> "attribute"]>>
         ELSE <<>>
    ELSE IF st.node = "AnnAssign"
    THEN IF st.target = "Name"
         THEN <<[name |-> st.id, type |-> AssignedNameType(st.id, in_class, in_function)]>>
         ELSE <<>>
    ELSE <<>>

\* generic_visit over the statements of a body
VisitBody(body, in_class, in_function) ==
    IF body = <<>> THEN <<>>
    ELSE VisitNode(Head(body), in_class, in_function)
         \o VisitBody(Tail(body), in_class, in_function)

\* extract_identifiers on a file with the given text: the empty list when
\* the text does not parse
extract_identifiers(content) ==
    LET Visit(tree) == IF tree.ok THEN VisitBody(tree.body, FALSE, FALSE) ELSE <<>>
    IN Visit(ParseModule(content))

(***************************************************************************)
(* The rewrite of one file.  A name map (a dict of the source) is a        *)
(* sequence of [old, new] entries in insertion order.                      *)
(***************************************************************************)
\* name in conversions
InMap(conversions, name) == \E k \in 1..Len(conversions) : conversions[k].old = name

\* Mutant: a name whose conversion is the name itself is entered as well
RECURSIVE BuildConversions_KeepSame(_, _, _)
BuildConversions_KeepSame(identifiers, preferences, conversions) ==
    IF identifiers = <<>> THEN conversions
    ELSE LET info == Head(identifiers)
             Add(new_name) ==
                 IF /\ ~should_skip(info.name, preferences)
                    /\ needs_conversion(info.name, info.type, preferences)
                    /\ new_name # <<>>
                    /\ ~InMap(conversions, info.name)
                 THEN BuildConversions_KeepSame(Tail(identifiers), preferences,
                                                Append(conversions,
                                                       [old |-> info.name, new |-> new_name]))
                 ELSE BuildConversions_KeepSame(Tail(identifiers), preferences, conversions)
         IN Add(convert_to_style(info.name, get_target_style(info.type, preferences)))

\* The loop that builds the conversion map from the extracted identifiers
RECURSIVE BuildConversions(_, _, _)
BuildConversions(identifiers, preferences, conversions) ==
    IF identifiers = <<>> THEN conversions
    ELSE LET info == Head(identifiers)
             Add(new_name) ==
                 IF /\ ~should_skip(info.name, preferences)
                    /\ needs_conversion(info.name, info.type, preferences)
                    /\ new_name # <<>>
                    /\ new_name # info.name
                    /\ ~InMap(conversions, info.name)
                 THEN BuildConversions(Tail(identifiers), preferences,
                                       Append(conversions,
                                              [old |-> info.name, new |-> new_name]))
                 ELSE BuildConversions(Tail(identifiers), preferences, conversions)
         IN Add(convert_to_style(info.name, get_target_style(info.type, preferences)))

\* Put entry e behind the entries of sorted whose old name is at least as
\* long: the stable sort of sorted(..., key=len, reverse=True)
RECURSIVE InsertByLength(_, _)
InsertByLength(sorted, e) ==
    IF sorted = <<>> THEN <<e>>
    ELSE IF Len(Head(sorted).old) >= Len(e.old)
         THEN <<Head(sorted)>> \o InsertByLength(Tail(sorted), e)
    ELSE <<e>> \o sorted

RECURSIVE SortByLength(_, _)
SortByLength(conversions, sorted) ==
    IF conversions = <<>> THEN sorted
    ELSE SortByLength(Tail(conversions), InsertByLength(sorted, Head(conversions)))

\* Mutant: the map is applied in the order of its insertions
sorted_conversions_Unsorted(conversions) == conversions

sorted_conversions(conversions) == SortByLength(conversions, <<>>)

\* \b at position i of text: exactly one of the characters before and at i
\* is a word character
WordBoundary(text, i) ==
    (i > 1 /\ IsWordChar(text[i - 1])) # (i <= Len(text) /\ IsWordChar(text[i]))

\* Mutant: the pattern without its two \b
PatternMatchesAt_NoBoundary(text, i, old_name) ==
    LET j == i + Len(old_name) IN
    /\ j - 1 <= Len(text)
    /\ SubSeq(text, i, j - 1) = old_name
    /\ ~(i > 1 /\ IsQuoteChar(text[i - 1]))
    /\ ~(j <= Len(text) /\ IsQuoteChar(text[j]))

\* The pattern (?<!["'])\bOLD\b(?!["']) matches at position i of text
PatternMatchesAt(text, i, old_name) ==
    LET j == i + Len(old_name) IN
    /\ j - 1 <= Len(text)
    /\ SubSeq(text, i, j - 1) = old_name
    /\ ~(i > 1 /\ IsQuoteChar(text[i - 1]))
    /\ WordBoundary(text, i)
    /\ WordBoundary(text, j)
    /\ ~(j <= Len(text) /\ IsQuoteChar(text[j]))

\* re.sub(pattern, new_name, text) from position i: leftmost matches, not
\* overlapping
RECURSIVE SubstituteFrom(_, _, _, _)
SubstituteFrom(text, i, old_name, new_name) ==
    IF i > Len(text) THEN <<>>
    ELSE IF PatternMatchesAt(text, i, old_name)
         THEN new_name \o SubstituteFrom(text, i + Len(old_name), old_name, new_name)
    ELSE <<text[i]>> \o SubstituteFrom(text, i + 1, old_name, new_name)

\* re.sub on the whole content.  A line break is neither a word character
\* nor a quote, so no match spans lines and each line is rewritten alone
Substitute(content, old_name, new_name) ==
    [l \in 1..Len(content) |-> SubstituteFrom(content[l], 1, old_name, new_name)]

\* The loop that applies the sorted conversions one after another
RECURSIVE ApplyConversions(_, _)
ApplyConversions(content, sorted) ==
    IF sorted = <<>> THEN content
    ELSE ApplyConversions(Substitute(content, Head(sorted).old, Head(sorted).new),
                          Tail(sorted))

\* What one call of convert_file does, given the text it finds on disk and
\* the file's permissions: the (count, map) it returns, the text on disk
\* afterwards, whether it printed the warning and how often it wrote; raised
\* tells whether the call ended in an exception instead of a return.
\*   mode "none": open for reading fails; "ro": open for writing fails.
\* Both errors are caught by the handler's except clause.
FileOutcome(count, conversions, content, warned, writes, plan, rewritten, reparsed) ==
    [count |-> count, conversions |-> conversions, content |-> content,
     warned |-> warned, writes |-> writes, plan |-> plan, rewritten |-> rewritten,
     reparsed |-> reparsed, raised |-> FALSE]

\* Mutant: the re-parse check is left out and every changed text is written
VerifyAndWrite_NoGuard(original_content, content, conversions, sorted, mode) ==
    IF content # original_content /\ mode = "rw"
    THEN FileOutcome(Len(conversions), conversions, content, FALSE, 1, sorted, content,
                     ParseModule(content).ok)
    ELSE FileOutcome(Len(conversions), conversions, original_content, FALSE, 0, sorted,
                     content, ParseModule(content).ok)

\* Mutant: the text is written before it is re-parsed
VerifyAndWrite_WriteFirst(original_content, content, conversions, sorted, mode) ==
    LET written == content # original_content /\ mode = "rw"
        on_disk == IF written THEN content ELSE original_content
        writes == IF written THEN 1 ELSE 0
    IN IF ~ParseModule(content).ok
       THEN FileOutcome(0, <<>>, on_disk, TRUE, writes, sorted, content, FALSE)
       ELSE FileOutcome(Len(conversions), conversions, on_disk, FALSE, writes, sorted,
                        content, TRUE)

\* Mutant: a text that re-parses is written even when nothing changed
VerifyAndWrite_AlwaysWrite(original_content, content, conversions, sorted, mode) ==
    IF ~ParseModule(content).ok
    THEN FileOutcome(0, <<>>, original_content, TRUE, 0, sorted, content, FALSE)
    ELSE IF mode = "rw"
    THEN FileOutcome(Len(conversions), conversions, content, FALSE, 1, sorted, content, TRUE)
    ELSE FileOutcome(Len(conversions), conversions, original_content, FALSE, 0, sorted,
                     content, TRUE)

\* The safety check and the write that end convert_file (both converters)
VerifyAndWrite(original_content, content, conversions, sorted, mode) ==
    IF ~ParseModule(content).ok
    THEN FileOutcome(0, <<>>, original_content, TRUE, 0, sorted, content, FALSE)
    ELSE IF content # original_content /\ mode = "rw"
    THEN FileOutcome(Len(conversions), conversions, content, FALSE, 1, sorted, content, TRUE)
    ELSE FileOutcome(Len(conversions), conversions, original_content, FALSE, 0, sorted,
                     content, TRUE)

\* Mutant: without the except clause a failed open leaves the call as an
\* exception
convert_file_Unhandled(original_content, preferences, mode) ==
    IF mode = "none"
    THEN [FileOutcome(0, <<>>, original_content, FALSE, 0, <<>>, original_content, FALSE)
            EXCEPT !.raised = TRUE]
    ELSE LET Rewrite(conversions, sorted) ==
                 VerifyAndWrite(original_content,
                                ApplyConversions(original_content, sorted),
                                conversions, sorted, mode)
             Apply(conversions) == Rewrite(conversions, sorted_conversions(conversions))
         IN Apply(BuildConversions(extract_identifiers(original_content),
                                   preferences, <<>>))

\* DynamicNamingConverter.convert_file on a file that holds original_content
convert_file(original_content, preferences, mode) ==
    IF mode = "none"
    THEN FileOutcome(0, <<>>, original_content, FALSE, 0, <<>>, original_content, FALSE)
    ELSE LET Rewrite(conversions, sorted) ==
                 VerifyAndWrite(original_content,
                                ApplyConversions(original_content, sorted),
                                conversions, sorted, mode)
             Apply(conversions) == Rewrite(conversions, sorted_conversions(conversions))
         IN Apply(BuildConversions(extract_identifiers(original_content),
                                   preferences, <<>>))

(***************************************************************************)
(* The legacy NamingConverter: one convention for every name.              *)
(***************************************************************************)
\* The dunder names listed in the legacy converter's reserved set
LegacyDunders == {
    <<"_","_","i","n","i","t","_","_">>, <<"_","_","n","a","m","e","_","_">>,
    <<"_","_","m","a","i","n","_","_">>, <<"_","_","f","i","l","e","_","_">>,
    <<"_","_","d","o","c","_","_">>, <<"_","_","d","i","c","t","_","_">>,
    <<"_","_","c","l","a","s","s","_","_">>, <<"_","_","s","t","r","_","_">>,
    <<"_","_","r","e","p","r","_","_">>, <<"_","_","l","e","n","_","_">>,
    <<"_","_","g","e","t","i","t","e","m","_","_">>,
    <<"_","_","s","e","t","i","t","e","m","_","_">>,
    <<"_","_","d","e","l","i","t","e","m","_","_">>, <<"_","_","i","t","e","r","_","_">>,
    <<"_","_","n","e","x","t","_","_">>, <<"_","_","c","a","l","l","_","_">>,
    <<"_","_","e","n","t","e","r","_","_">>, <<"_","_","e","x","i","t","_","_">>,
    <<"_","_","e","q","_","_">>, <<"_","_","n","e","_","_">>, <<"_","_","l","t","_","_">>,
    <<"_","_","l","e","_","_">>, <<"_","_","g","t","_","_">>, <<"_","_","g","e","_","_">>,
    <<"_","_","h","a","s","h","_","_">>, <<"_","_","b","o","o","l","_","_">>,
    <<"_","_","c","o","n","t","a","i","n","s","_","_">>, <<"_","_","a","d","d","_","_">>,
    <<"_","_","s","u","b","_","_">>, <<"_","_","m","u","l","_","_">>,
    <<"_","_","t","r","u","e","d","i","v","_","_">>,
    <<"_","_","f","l","o","o","r","d","i","v","_","_">>, <<"_","_","m","o","d","_","_">>,
    <<"_","_","p","o","w","_","_">>, <<"_","_","a","n","d","_","_">>, <<"_","_","o","r","_","_">>,
    <<"_","_","x","o","r","_","_">>, <<"_","_","l","s","h","i","f","t","_","_">>,
    <<"_","_","r","s","h","i","f","t","_","_">>, <<"_","_","n","e","g","_","_">>,
    <<"_","_","p","o","s","_","_">>, <<"_","_","a","b","s","_","_">>,
    <<"_","_","i","n","v","e","r","t","_","_">>, <<"_","_","c","o","m","p","l","e","x","_","_">>,
    <<"_","_","i","n","t","_","_">>, <<"_","_","f","l","o","a","t","_","_">>,
    <<"_","_","r","o","u","n","d","_","_">>, <<"_","_","i","n","d","e","x","_","_">>,
    <<"_","_","n","e","w","_","_">>
    }

\* self.reserved of the legacy converter
LegacyReserved == Keywords \cup ReceiverNames \cup LegacyDunders

\* self.skip_patterns: ^_.*  ^__.*__$  ^[A-Z][A-Z0-9_]*$
MatchesSkipPattern(name) ==
    \/ StartsWith(name, <<"_">>)
    \/ (Len(name) >= 4 /\ StartsWith(name, <<"_","_">>)
        /\ name[Len(name) - 1] = "_" /\ name[Len(name)] = "_")
    \/ ConstantPattern(name)

\* name.split('_') without lowercasing, then part[0].upper() + part[1:]
\* (part.upper() for a one-character part) for every non-empty later part
snake_to_camel(name) ==
    IF name = <<>> \/ name \in LegacyReserved THEN name
    ELSE IF MatchesSkipPattern(name) THEN name
    ELSE IF StartsWith(name, <<"_">>) THEN name
    ELSE IF ~HasUnderscore(name) THEN name
    ELSE LET parts == SplitUnderscore(name)
         IN IF Len(parts) = 1 THEN name
            ELSE StrLower(parts[1]) \o JoinCapitalized(Tail(parts))

camel_to_snake(name) ==
    IF name = <<>> \/ name \in LegacyReserved THEN name
    ELSE IF MatchesSkipPattern(name) THEN name
    ELSE LET result == StrLower(UnderscoreBeforeCapitals(name))
         IN IF StartsWith(result, <<"_">>) THEN DropFirst(result, 1) ELSE result

\* re.search(r'[a-z][A-Z]', name)
HasLowerThenUpper(name) ==
    \E i \in 1..(Len(name) - 1) : IsLowerChar(name[i]) /\ IsUpperChar(name[i + 1])

should_convert(name, naming_convention) ==
    IF name = <<>> \/ name \in LegacyReserved THEN FALSE
    ELSE IF MatchesSkipPattern(name) THEN FALSE
    ELSE IF naming_convention = "camelCase"
         THEN HasUnderscore(name) /\ ~StartsWith(name, <<"_","_">>) /\ ~ConstantPattern(name)
    ELSE HasLowerThenUpper(name)

convert_name(name, naming_convention) ==
    IF ~should_convert(name, naming_convention) THEN name
    ELSE IF naming_convention = "camelCase" THEN snake_to_camel(name)
    ELSE camel_to_snake(name)

\* The names ast.walk finds in a body: Name ids, function names and their
\* parameters, Attribute attrs (class names are no Name nodes)
RECURSIVE NamesInBody(_)
NamesInBody(body) ==
    IF body = <<>> THEN {}
    ELSE LET st == Head(body)
             here == IF st.node = "ClassDef" THEN NamesInBody(st.body)
                     ELSE IF st.node = "FunctionDef"
                          THEN {st.name}
                               \cup {st.args[k].name :
                                       k \in {n \in 1..Len(st.args) :
                                                st.args[n].kind = "arg"}}
                               \cup NamesInBody(st.body)
                     ELSE st.names \cup st.attrs
         IN here \cup NamesInBody(Tail(body))

\* find_names_in_file: the empty set when the text does not parse
find_names_in_file(content) ==
    LET Walk(tree) == IF tree.ok THEN NamesInBody(tree.body) ELSE {}
    IN Walk(ParseModule(content))

\* The names of the file for which the loop of the legacy convert_file adds
\* an entry to the map
LegacyCandidates(content, naming_convention) ==
    {name \in find_names_in_file(content) :
        /\ Len(name) >= 2
        /\ should_convert(name, naming_convention)
        /\ LET new_name == convert_name(name, naming_convention)
           IN new_name # <<>> /\ new_name # name /\ Len(new_name) >= 2}

\* The orders in which a set can be iterated: the source loops over a set
\* of strings, whose iteration order is not fixed
RECURSIVE IterationOrders(_)
IterationOrders(S) ==
    IF S = {} THEN {<<>>}
    ELSE UNION {{<<x>> \o rest : rest \in IterationOrders(S \ {x})} : x \in S}

\* The legacy convert_file for one iteration order of the names
legacy_convert_file(original_content, naming_convention, mode, order) ==
    IF mode = "none"
    THEN FileOutcome(0, <<>>, original_content, FALSE, 0, <<>>, original_content, FALSE)
    ELSE LET Rewrite(conversions, sorted) ==
                 VerifyAndWrite(original_content,
                                ApplyConversions(original_content, sorted),
                                conversions, sorted, mode)
             Apply(conversions) == Rewrite(conversions, sorted_conversions(conversions))
         IN Apply([k \in 1..Len(order) |->
                     [old |-> order[k],
                      new |-> convert_name(order[k], naming_convention)]])

(***************************************************************************)
(* The directory tree, the files in it and the listing of a walk.          *)
(***************************************************************************)
\* class Foo: /  def doWork(self,some_arg):pass
MethodFile ==
    <<<<"c","l","a","s","s"," ","F","o","o",":">>,
      <<" ","d","e","f"," ","d","o","W","o","r","k","(","s","e","l","f",",","s","o","m","e","_","a","r","g",")",":","p","a","s","s">>>>

\* def fooBar(aa):pass / fooBar=1
TwoKindsFile ==
    <<<<"d","e","f"," ","f","o","o","B","a","r","(","a","a",")",":","p","a","s","s">>,
      <<"f","o","o","B","a","r","=","1">>>>

\* Def=1 / myVar=2
KeywordClashFile ==
    <<<<"D","e","f","=","1">>,
      <<"m","y","V","a","r","=","2">>>>

\* myVar=
BrokenFile ==
    <<<<"m","y","V","a","r","=">>>>

\* my_var=1
SnakeFile ==
    <<<<"m","y","_","v","a","r","=","1">>>>

\* msg='myVar is set'#myVar / myVar=msg
StringsFile ==
    <<<<"m","s","g","=","'","m","y","V","a","r"," ","i","s"," ","s","e","t","'","#","m","y","V","a","r">>,
      <<"m","y","V","a","r","=","m","s","g">>>>

\* myVar=1 / class my_class:pass
OtherFile ==
    <<<<"m","y","V","a","r","=","1">>,
      <<"c","l","a","s","s"," ","m","y","_","c","l","a","s","s",":","p","a","s","s">>>>

\* def my_class():pass
SameNameFile ==
    <<<<"d","e","f"," ","m","y","_","c","l","a","s","s","(",")",":","p","a","s","s">>>>

\* class my_hook:pass / my_var=1
HookFile ==
    <<<<"c","l","a","s","s"," ","m","y","_","h","o","o","k",":","p","a","s","s">>,
      <<"m","y","_","v","a","r","=","1">>>>

\* class my_cache:pass
CacheFile ==
    <<<<"c","l","a","s","s"," ","m","y","_","c","a","c","h","e",":","p","a","s","s">>>>

\* class my_note:pass
NoteFile ==
    <<<<"c","l","a","s","s"," ","m","y","_","n","o","t","e",":","p","a","s","s">>>>

FileA == <<<<"a",".","p","y">>>>

FileB == <<<<"b",".","p","y">>>>

GitFile == <<<<".","g","i","t">>, <<"h",".","p","y">>>>

CacheDirFile == <<<<"_","_","p","y","c","a","c","h","e","_","_">>, <<"c",".","p","y">>>>

TextFile == <<<<"n",".","t","x","t">>>>

\* The files of the tree, by their path below the root
TreeFiles == <<FileA, FileB, GitFile, CacheDirFile, TextFile>>

FileSet == {TreeFiles[k] : k \in 1..Len(TreeFiles)}

\* The texts a.py may hold at the start
SampleFiles ==
    {MethodFile, TwoKindsFile, KeywordClashFile, BrokenFile, SnakeFile, StringsFile,
     SameNameFile}

\* The root paths a caller passes: the relative root '.' and an absolute
\* path of the same directory
Roots == {<<".">>, <<"/","r">>}

\* s.endswith(p)
EndsWith(s, p) == Len(s) >= Len(p) /\ SubSeq(s, Len(s) - Len(p) + 1, Len(s)) = p

\* The components of a path joined by '/'
RECURSIVE JoinPath(_)
JoinPath(rel) ==
    IF Len(rel) = 1 THEN rel[1]
    ELSE rel[1] \o <<"/">> \o JoinPath(Tail(rel))

\* str(filepath) for a file that rglob finds below root: the root '.' adds
\* no prefix of its own
PathStr(root, rel) ==
    IF root = <<".">> THEN JoinPath(rel) ELSE root \o <<"/">> \o JoinPath(rel)

\* rglob("*.py"): the files whose name ends in .py, in tree order
RECURSIVE PythonFilesOf(_)
PythonFilesOf(files) ==
    IF files = <<>> THEN <<>>
    ELSE (IF EndsWith(Head(files)[Len(Head(files))], <<".","p","y">>)
          THEN <<Head(files)>> ELSE <<>>)
         \o PythonFilesOf(Tail(files))

RECURSIVE Reverse(_)
Reverse(s) == IF s = <<>> THEN <<>> ELSE Append(Reverse(Tail(s)), Head(s))

\* The orders in which rglob may list the files: it promises none; the
\* model takes the tree order and its reverse
Listings == {PythonFilesOf(TreeFiles), Reverse(PythonFilesOf(TreeFiles))}

PycacheName == <<"_","_","p","y","c","a","c","h","e","_","_">>

\* The test that makes the walk of the dynamic converter pass over a file
DynamicExcluded(path_str) ==
    \/ Contains(path_str, PycacheName)
    \/ Contains(path_str, <<"/",".","g","i","t","/">>)
    \/ Contains(path_str, <<"\\",".","g","i","t","\\">>)

\* The same test in the legacy converter
LegacyExcluded(path_str) ==
    \/ Contains(path_str, PycacheName)
    \/ Contains(path_str, <<"/",".","g","i","t","/">>)

\* Mutant: an old name already in the aggregate map keeps its first value
RECURSIVE UpdateMap_KeepFirst(_, _)
UpdateMap_KeepFirst(all_conversions, conversions) ==
    IF conversions = <<>> THEN all_conversions
    ELSE UpdateMap_KeepFirst(IF InMap(all_conversions, Head(conversions).old)
                             THEN all_conversions
                             ELSE Append(all_conversions, Head(conversions)),
                             Tail(conversions))

\* all_conversions.update(conversions): an old name already in the map
\* keeps its place and takes the new value, a new one goes to the end
RECURSIVE UpdateMap(_, _)
UpdateMap(all_conversions, conversions) ==
    IF conversions = <<>> THEN all_conversions
    ELSE LET e == Head(conversions)
             merged == IF InMap(all_conversions, e.old)
                       THEN [k \in 1..Len(all_conversions) |->
                               IF all_conversions[k].old = e.old THEN e
                               ELSE all_conversions[k]]
                       ELSE Append(all_conversions, e)
         IN UpdateMap(merged, Tail(conversions))

(***************************************************************************)
(* State.                                                                  *)
(***************************************************************************)
VARIABLES
    disk,       \* the text of every file of the tree
    mode,       \* the permissions of every file: "rw", "ro" or "none"
    prefs,      \* the NamingPreferences of the run
    pc,         \* "idle", "walking" (inside convert_directory), "returned" or "raised"
    walk,       \* the locals of convert_directory and what it printed
    last,       \* the latest iteration of the walk: the file and its outcome
    runs,       \* number of walks started
    probe,      \* a call of the pure name functions and its results
    main        \* a run of main: its arguments, its position and what it wrote

vars == <<disk, mode, prefs, pc, walk, last, runs, probe, main>>

\* Bounds of the model
MaxRuns == 2

MaxNameLen == 3

NoOutcome == FileOutcome(0, <<>>, <<>>, FALSE, 0, <<>>, <<>>, FALSE)

NoCall == [path |-> <<>>, called |-> FALSE, before |-> <<>>, mode |-> "rw", out |-> NoOutcome]

NoWalk ==
    [converter |-> "dynamic", root |-> <<>>, python_files |-> <<>>, index |-> 1,
     files_processed |-> 0, total_conversions |-> 0, all_conversions |-> <<>>,
     passed |-> <<>>, counts |-> <<>>, warnings |-> <<>>]

NoProbe ==
    [name |-> <<>>, op |-> "none", style |-> NoStyle, kind |-> "unknown",
     result |-> <<>>, again |-> <<>>, detected |-> NoStyle, needs |-> FALSE]

\* An argument that was not given on the command line
NoArg == "None"

\* naming_preferences = None; a loaded table is the one-element sequence
NoPreferences == <<>>

\* A dict without keys
EmptyData == [key \in {} |-> NoArg]

\* A JSON document: its top-level style fields and, when wrapped, the
\* object under its "naming_preferences" key
NoDoc == [wrapped |-> FALSE, naming_preferences |-> EmptyData, top |-> EmptyData]

NoArgs ==
    [config |-> NoArg, doc |-> NoDoc, preset |-> NoArg, naming |-> NoArg,
     var_naming |-> "snake_case", func_naming |-> "camelCase",
     generate_pylintrc |-> TRUE]

NoMain ==
    [pc |-> "none", args |-> NoArgs, naming_preferences |-> NoPreferences,
     use_dynamic |-> FALSE, written |-> <<>>, error |-> "None"]

\* The converters a run may use: the dynamic one with the preferences, or
\* the legacy one with one of its two conventions
Converters == {"dynamic", "camelCase", "snake_case"}

FilePreferences == {DefaultPreferences, PythonStandard, JavaStyle}

Init ==
    /\ \E text \in SampleFiles :
         disk = [f \in FileSet |->
                   IF f = FileA THEN text
                   ELSE IF f = FileB THEN OtherFile
                   ELSE IF f = GitFile THEN HookFile
                   ELSE IF f = CacheDirFile THEN CacheFile
                   ELSE NoteFile]
    /\ \E m \in {"rw", "ro", "none"} :
         mode = [f \in FileSet |-> IF f = FileA THEN m ELSE "rw"]
    /\ prefs \in FilePreferences
    /\ pc = "idle"
    /\ walk = NoWalk
    /\ last = NoCall
    /\ runs = 0
    /\ probe = NoProbe
    /\ main = NoMain

(***************************************************************************)
(* convert_directory, one action per step of its loop.                     *)
(***************************************************************************)
\* The call: the counters are zeroed and the files are listed
StartWalk(converter, root, listing) ==
    /\ pc \in {"idle", "returned"}
    /\ runs < MaxRuns
    /\ pc' = "walking"
    /\ walk' = [NoWalk EXCEPT !.converter = converter, !.root = root,
                              !.python_files = listing]
    /\ last' = NoCall
    /\ runs' = runs + 1
    /\ UNCHANGED <<disk, mode, prefs, probe, main>>

CurrentFile == walk.python_files[walk.index]

CurrentExcluded ==
    IF walk.converter = "dynamic"
    THEN DynamicExcluded(PathStr(walk.root, CurrentFile))
    ELSE LegacyExcluded(PathStr(walk.root, CurrentFile))

\* An iteration that passes over an excluded file
SkipFile ==
    /\ pc = "walking"
    /\ walk.index <= Len(walk.python_files)
    /\ CurrentExcluded
    /\ walk' = [walk EXCEPT !.index = @ + 1]
    /\ last' = [NoCall EXCEPT !.path = CurrentFile, !.before = disk[CurrentFile],
                              !.mode = mode[CurrentFile]]
    /\ UNCHANGED <<disk, mode, prefs, pc, runs, probe, main>>

\* The rest of an iteration once the call of convert_file has ended with
\* out; an exception that leaves the call ends the walk without a report
Account(out) ==
    /\ disk' = [disk EXCEPT ![CurrentFile] = out.content]
    /\ walk' = IF out.raised THEN walk
               ELSE [walk EXCEPT
                  !.index = @ + 1,
                  !.files_processed = IF out.count > 0 THEN @ + 1 ELSE @,
                  !.total_conversions = IF out.count > 0 THEN @ + out.count ELSE @,
                  !.all_conversions = IF out.count > 0 THEN UpdateMap(@, out.conversions)
                                      ELSE @,
                  !.passed = Append(@, CurrentFile),
                  !.counts = Append(@, out.count),
                  !.warnings = IF out.warned THEN Append(@, CurrentFile) ELSE @]
    /\ pc' = IF out.raised THEN "raised" ELSE pc
    /\ last' = [path |-> CurrentFile, called |-> TRUE, before |-> disk[CurrentFile],
                mode |-> mode[CurrentFile], out |-> out]
    /\ UNCHANGED <<mode, prefs, runs, probe, main>>

\* An iteration of the dynamic converter's walk that calls convert_file
ConvertNextFile ==
    /\ pc = "walking"
    /\ walk.index <= Len(walk.python_files)
    /\ walk.converter = "dynamic"
    /\ ~CurrentExcluded
    /\ Account(convert_file(disk[CurrentFile], prefs, mode[CurrentFile]))

\* An iteration of the legacy converter's walk that calls convert_file
LegacyConvertNextFile ==
    /\ pc = "walking"
    /\ walk.index <= Len(walk.python_files)
    /\ walk.converter # "dynamic"
    /\ ~CurrentExcluded
    /\ \E order \in IterationOrders(
                       IF mode[CurrentFile] = "none" THEN {}
                       ELSE LegacyCandidates(disk[CurrentFile], walk.converter)) :
         Account(legacy_convert_file(disk[CurrentFile], walk.converter,
                                     mode[CurrentFile], order))

\* The return of convert_directory: the report is in walk
FinishWalk ==
    /\ pc = "walking"
    /\ walk.index > Len(walk.python_files)
    /\ pc' = "returned"
    /\ UNCHANGED <<disk, mode, prefs, walk, last, runs, probe, main>>

Next ==
    \/ \E converter \in Converters, root \in Roots, listing \in Listings :
         StartWalk(converter, root, listing)
    \/ SkipFile
    \/ ConvertNextFile
    \/ LegacyConvertNextFile
    \/ FinishWalk

Spec == Init /\ [][Next]_vars

\* An iteration of the loop of convert_directory
FileStep == SkipFile \/ ConvertNextFile \/ LegacyConvertNextFile

\* convert_directory is sequential code: a walk that can take a step takes
\* it.  The loop has an iteration to run exactly while a file of the listing
\* is left, so weak fairness of FileStep is written with that condition in
\* the place of ENABLED <<FileStep>>_vars
LiveSpec ==
    /\ Spec
    /\ WF_vars(FinishWalk)
    /\ \/ []<>(~(pc = "walking" /\ walk.index <= Len(walk.python_files)))
       \/ []<><<FileStep>>_vars
(***************************************************************************)
(* The pure name functions, called on every identifier of a bounded set.   *)
(***************************************************************************)
\* The characters the enumerated identifiers are made of
NameAlphabet == {"i", "d", "D", "_", "1"}

\* Identifiers of the source text the enumeration is too short for
ExampleNames ==
    {<<"f","o","o">>, <<"F","O","O">>, <<"m","y","V","a","r">>,
     <<"M","Y","_","V","A","R">>, <<"X","M","L","P","a","r","s","e","r">>,
     <<"_","f","o","o","_","b","a","r">>, <<"_","_","i","n","i","t","_","_">>,
     <<"_","_","A","1","_","_">>, <<"_","_","F","o","o","_","_">>,
     <<"p","r","i","n","t">>, <<"s","e","l","f">>, <<"M","y","C","l","a","s","s">>,
     <<"m","y","_","c","l","a","s","s">>,
     <<"m","y","_","v","a","r","i","a","b","l","e","_","n","a","m","e">>,
     <<"m","y","V","a","r","i","a","b","l","e","N","a","m","e">>}

\* The legal identifiers of at most MaxNameLen characters, and the examples
Names ==
    {s \in UNION {[1..n -> NameAlphabet] : n \in 1..MaxNameLen} : ~IsDigitChar(s[1])}
    \cup ExampleNames

\* The preference tables of the name calls: the presets with each setting
\* of the two preserve flags
NamePreferences ==
    {[t EXCEPT !.preserve_private = private, !.preserve_constants = constants] :
        t \in FilePreferences, private \in BOOLEAN, constants \in BOOLEAN}

InitNames ==
    /\ disk = [f \in FileSet |-> <<>>]
    /\ mode = [f \in FileSet |-> "rw"]
    /\ prefs \in NamePreferences
    /\ pc = "idle"
    /\ walk = NoWalk
    /\ last = NoCall
    /\ runs = 0
    /\ \E name \in Names : probe = [NoProbe EXCEPT !.name = name, !.op = "input"]
    /\ main = NoMain

\* convert_to_style(name, style), the same conversion of its result, and
\* detect_style of its result
Convert(style) ==
    /\ probe.op = "input"
    /\ LET result == convert_to_style(probe.name, style)
       IN probe' = [probe EXCEPT !.op = "convert", !.style = style, !.result = result,
                                 !.again = convert_to_style(result, style),
                                 !.detected = detect_style(result)]
    /\ UNCHANGED <<disk, mode, prefs, pc, walk, last, runs, main>>

\* needs_conversion(name, kind)
CheckNeeds(kind) ==
    /\ probe.op = "input"
    /\ probe' = [probe EXCEPT !.op = "needs", !.kind = kind,
                              !.needs = needs_conversion(probe.name, kind, prefs)]
    /\ UNCHANGED <<disk, mode, prefs, pc, walk, last, runs, main>>

\* detect_style(name)
Detect ==
    /\ probe.op = "input"
    /\ probe' = [probe EXCEPT !.op = "detect", !.detected = detect_style(probe.name)]
    /\ UNCHANGED <<disk, mode, prefs, pc, walk, last, runs, main>>

NextNames ==
    \/ \E style \in NamingStyle : Convert(style)
    \/ Detect
    \/ \E kind \in IdentifierType : CheckNeeds(kind)

SpecNames == InitNames /\ [][NextNames]_vars


(***************************************************************************)
(* Loading the preferences and the run of main.                            *)
(***************************************************************************)
\* The seven style fields in the order from_dict validates them
StyleKeys ==
    <<"variables", "functions", "classes", "constants", "methods", "arguments",
      "attributes">>

valid_styles == {"snake_case", "camelCase", "PascalCase", "SCREAMING_SNAKE_CASE"}

\* The values a style field of a config file may hold: the four styles and
\* a name that is none of them
StyleValues == valid_styles \cup {"kebab-case"}

\* Bound: the number of style fields a config file sets
MaxFields == 1

\* The dicts a config file may hold
ConfigData ==
    UNION {[S -> StyleValues] :
             S \in {T \in SUBSET {StyleKeys[k] : k \in 1..Len(StyleKeys)} :
                      Cardinality(T) <= MaxFields}}

\* data.get(key, default)
Get(data, key, default) == IF key \in DOMAIN data THEN data[key] ELSE default

\* cls(...) with the defaults of from_dict
PreferencesOf(data) ==
    [variables |-> Get(data, "variables", "snake_case"),
     functions |-> Get(data, "functions", "camelCase"),
     classes |-> Get(data, "classes", "PascalCase"),
     constants |-> Get(data, "constants", "SCREAMING_SNAKE_CASE"),
     methods |-> Get(data, "methods", "camelCase"),
     arguments |-> Get(data, "arguments", "snake_case"),
     attributes |-> Get(data, "attributes", "snake_case"),
     preserve_private |-> Get(data, "preserve_private", TRUE),
     preserve_constants |-> Get(data, "preserve_constants", TRUE)]

\* Mutant: the styles are not validated
from_dict_Unchecked(data) ==
    [ok |-> TRUE, error |-> "None", preferences |-> <<PreferencesOf(data)>>]

\* NamingPreferences.from_dict: ValueError for the first style field that
\* holds an unknown style, else the table
from_dict(data) ==
    IF \E k \in 1..Len(StyleKeys) :
         StyleKeys[k] \in DOMAIN data /\ data[StyleKeys[k]] \notin valid_styles
    THEN [ok |-> FALSE, error |-> "ValueError", preferences |-> NoPreferences]
    ELSE [ok |-> TRUE, error |-> "None", preferences |-> <<PreferencesOf(data)>>]

\* data.get("naming_preferences", data) of from_json_file
LoadedData(doc) == IF doc.wrapped THEN doc.naming_preferences ELSE doc.top

\* NamingPreferences.from_json_file on a file that holds doc
from_json_file(doc) == from_dict(LoadedData(doc))

PRESETS ==
    [python_standard |-> PythonStandard, java_style |-> JavaStyle,
     mixed_style |-> DefaultPreferences]

\* The config files of the runs
Docs ==
    {[wrapped |-> FALSE, naming_preferences |-> EmptyData, top |-> d] : d \in ConfigData}
    \cup {[wrapped |-> TRUE, naming_preferences |-> d, top |-> t] :
            d \in ConfigData, t \in {EmptyData, [variables |-> "kebab-case"]}}

\* The command lines of the runs
MainArgs ==
    {[NoArgs EXCEPT !.config = "file", !.doc = d, !.preset = p,
                    !.generate_pylintrc = g] :
       d \in Docs, p \in {NoArg, "java_style"}, g \in BOOLEAN}
    \cup {[NoArgs EXCEPT !.config = "missing"]}
    \cup {[NoArgs EXCEPT !.preset = p, !.naming = n] :
            p \in DOMAIN PRESETS, n \in {NoArg, "camelCase"}}
    \cup {[NoArgs EXCEPT !.var_naming = v, !.func_naming = f] :
            v \in valid_styles, f \in valid_styles}
    \cup {[NoArgs EXCEPT !.naming = n] : n \in {"camelCase", "snake_case"}}

InitMain ==
    /\ disk = [f \in FileSet |-> <<>>]
    /\ mode = [f \in FileSet |-> "rw"]
    /\ prefs = DefaultPreferences
    /\ pc = "idle"
    /\ walk = NoWalk
    /\ last = NoCall
    /\ runs = 0
    /\ probe = NoProbe
    /\ \E args \in MainArgs : main = [NoMain EXCEPT !.pc = "parsed", !.args = args]

\* main: "Determine naming preferences"
DeterminePreferences ==
    /\ main.pc = "parsed"
    /\ main' =
         IF main.args.config = "missing"
         THEN [main EXCEPT !.pc = "exited"]
         ELSE IF main.args.config = "file"
         THEN LET loaded == from_json_file(main.args.doc)
              IN IF loaded.ok
                 THEN [main EXCEPT !.pc = "configured", !.use_dynamic = TRUE,
                                   !.naming_preferences = loaded.preferences]
                 ELSE [main EXCEPT !.pc = "raised", !.error = loaded.error]
         ELSE IF main.args.preset # NoArg
         THEN [main EXCEPT !.pc = "configured", !.use_dynamic = TRUE,
                           !.naming_preferences = <<PRESETS[main.args.preset]>>]
         ELSE IF main.args.naming = NoArg
         THEN [main EXCEPT
                 !.pc = "configured", !.use_dynamic = TRUE,
                 !.naming_preferences =
                    <<[DefaultPreferences EXCEPT
                         !.variables = main.args.var_naming,
                         !.functions = main.args.func_naming,
                         !.attributes = main.args.var_naming]>>]
         ELSE [main EXCEPT !.pc = "configured"]
    /\ UNCHANGED <<disk, mode, prefs, pc, walk, last, runs, probe>>

\* main, step 1: PylintrcGenerator.generate writes the linter config
GeneratePylintrc ==
    /\ main.pc = "configured"
    /\ main' = [main EXCEPT !.pc = "step1",
                            !.written = IF main.args.generate_pylintrc
                                        THEN Append(@, ".pylintrc") ELSE @]
    /\ UNCHANGED <<disk, mode, prefs, pc, walk, last, runs, probe>>

\* main, steps 2 and 4: PylintRunner.run_and_count reads the files
RunAndCount ==
    /\ main.pc \in {"step1", "step3"}
    /\ main' = [main EXCEPT !.pc = IF main.pc = "step1" THEN "step2" ELSE "done"]
    /\ UNCHANGED <<disk, mode, prefs, pc, walk, last, runs, probe>>

\* main, step 3: CodeFixer.fix_all rewrites the source files in place
FixAll ==
    /\ main.pc = "step2"
    /\ main' = [main EXCEPT !.pc = "step3", !.written = Append(@, "sources")]
    /\ UNCHANGED <<disk, mode, prefs, pc, walk, last, runs, probe>>

NextMain ==
    \/ DeterminePreferences
    \/ GeneratePylintrc
    \/ RunAndCount
    \/ FixAll

SpecMain == InitMain /\ [][NextMain]_vars

(***************************************************************************)
(* Calls of the substitution and of the extraction on texts.               *)
(***************************************************************************)
\* class Foo: /  def myMeth(self): /   def innerFn(x_y):pass
NestedFile ==
    <<<<"c","l","a","s","s"," ","F","o","o",":">>,
      <<" ","d","e","f"," ","m","y","M","e","t","h","(","s","e","l","f",")",":">>,
      <<" "," ","d","e","f"," ","i","n","n","e","r","F","n","(","x","_","y",")",":","p","a","s","s">>>>

\* def my_fn(a_a,*my_args,k_w,**my_kw):pass
StarArgsFile ==
    <<<<"d","e","f"," ","m","y","_","f","n","(","a","_","a",",","*","m","y","_","a","r","g","s",",","k","_","w",",","*","*","m","y","_","k","w",")",":","p","a","s","s">>>>

\* def run_it(self,n_n):pass / class K: /  def go(me,cls):pass
ReceiverFile ==
    <<<<"d","e","f"," ","r","u","n","_","i","t","(","s","e","l","f",",","n","_","n",")",":","p","a","s","s">>,
      <<"c","l","a","s","s"," ","K",":">>,
      <<" ","d","e","f"," ","g","o","(","m","e",",","c","l","s",")",":","p","a","s","s">>>>

\* The pieces the one-line texts are put together from: the name aB alone
\* and inside longer identifiers, quotes, the comment sign, a blank, "="
TextPieces ==
    {<<"a","B">>, <<"a","B","1">>, <<"x">>, <<"_">>, <<"'">>, <<"\"">>, <<"#">>, <<" ">>, <<"=">>}

\* Bound: the number of pieces of a one-line text
MaxPieces == 3

RECURSIVE Flatten(_)
Flatten(pieces) == IF pieces = <<>> THEN <<>> ELSE Head(pieces) \o Flatten(Tail(pieces))

\* Files with assignments of every form, with two names that a conversion
\* makes one, with two names that are each other's conversion, and with
\* names of two lengths:
\*   class K: / aB:int=1 / c_d,eF=aB / def m(self): / self.xY:int=2
\*   myVar=1 / my_var=2
\*   class my_var:pass / MyVar=1
\*   aB=1 / myVar=2
PlanFiles ==
    {<<<<"c","l","a","s","s"," ","K",":">>,
      <<" ","a","B",":","i","n","t","=","1">>,
      <<" ","c","_","d",",","e","F","=","a","B">>,
      <<" ","d","e","f"," ","m","(","s","e","l","f",")",":">>,
      <<" "," ","s","e","l","f",".","x","Y",":","i","n","t","=","2">>>>,
     <<<<"m","y","V","a","r","=","1">>,
      <<"m","y","_","v","a","r","=","2">>>>,
     <<<<"c","l","a","s","s"," ","m","y","_","v","a","r",":","p","a","s","s">>,
      <<"M","y","V","a","r","=","1">>>>,
     <<<<"a","B","=","1">>,
      <<"m","y","V","a","r","=","2">>>>}

\* The texts of the calls: the one-line texts of at most MaxPieces pieces
\* and the sample files
Texts ==
    {<<Flatten(pieces)>> : pieces \in UNION {[1..n -> TextPieces] : n \in 0..MaxPieces}}
    \cup SampleFiles \cup {OtherFile, NestedFile, StarArgsFile, ReceiverFile}
    \cup PlanFiles

\* The entries of a plan that the substitution is called with
PlanEntries ==
    {[old |-> <<"a","B">>, new |-> <<"a","_","b">>], [old |-> <<"x">>, new |-> <<"x","_","1">>]}

InitText ==
    /\ disk = [f \in FileSet |-> <<>>]
    /\ mode = [f \in FileSet |-> "rw"]
    /\ prefs = DefaultPreferences
    /\ pc = "idle"
    /\ walk = NoWalk
    /\ last = NoCall
    /\ runs = 0
    /\ main = NoMain
    /\ \E text \in Texts :
         probe = [op |-> "input", text |-> text, old |-> <<>>, new |-> <<>>,
                  result |-> <<>>, identifiers |-> <<>>]

\* One round of the substitution loop of convert_file: re.sub of the
\* entry's pattern on the text
SubstituteText(entry) ==
    /\ probe.op = "input"
    /\ probe' = [probe EXCEPT !.op = "substitute", !.old = entry.old, !.new = entry.new,
                              !.result = Substitute(probe.text, entry.old, entry.new)]
    /\ UNCHANGED <<disk, mode, prefs, pc, walk, last, runs, main>>

\* extract_identifiers on a file that holds the text
ExtractText ==
    /\ probe.op = "input"
    /\ probe' = [probe EXCEPT !.op = "extract",
                              !.identifiers = extract_identifiers(probe.text)]
    /\ UNCHANGED <<disk, mode, prefs, pc, walk, last, runs, main>>

\* convert_file with the given preferences on a writable file that holds
\* the text
ConvertText(preferences) ==
    /\ probe.op = "input"
    /\ probe' = [probe EXCEPT !.op = "convert_file"]
    /\ prefs' = preferences
    /\ last' = [NoCall EXCEPT !.called = TRUE, !.before = probe.text,
                              !.out = convert_file(probe.text, preferences, "rw")]
    /\ UNCHANGED <<disk, mode, pc, walk, runs, main>>

\* convert_file once more, with the same preferences, on the file that the
\* first call has rewritten
ConvertTextAgain ==
    /\ probe.op = "convert_file"
    /\ last.out.writes = 1
    /\ probe' = [probe EXCEPT !.op = "convert_again"]
    /\ last' = [last EXCEPT !.before = last.out.content,
                            !.out = convert_file(last.out.content, prefs, "rw")]
    /\ UNCHANGED <<disk, mode, prefs, pc, walk, runs, main>>

NextText ==
    \/ \E entry \in PlanEntries : SubstituteText(entry)
    \/ ExtractText
    \/ \E preferences \in FilePreferences : ConvertText(preferences)
    \/ ConvertTextAgain

SpecText == InitText /\ [][NextText]_vars
(***************************************************************************)
(* Properties.                                                             *)
(***************************************************************************)
\* The latest iteration called the convert_file of the dynamic converter
DynamicCall == last.called /\ walk.converter = "dynamic"

\* The elements of a sequence
Range(s) == {s[k] : k \in 1..Len(s)}

\* C1: when the text that the substitutions of DynamicNamingConverter's
\* convert_file produce does not re-parse, the file on disk is the text it
\* held before the call, the warning names the file, and the call returns
\* zero conversions and an empty name map.
C1_ReparseFailureDiscards ==
    (DynamicCall /\ last.mode # "none" /\ ~ParseModule(last.out.rewritten).ok)
    => /\ disk[last.path] = last.before
       /\ last.out.warned
       /\ last.path \in Range(walk.warnings)
       /\ last.out.count = 0
       /\ last.out.conversions = <<>>

\* C1 witness: a file that parsed, with a non-empty plan whose rewrite does
\* not parse
C1_Witness ==
    /\ DynamicCall
    /\ ParseModule(last.before).ok
    /\ last.out.plan # <<>>
    /\ last.out.rewritten # last.before
    /\ ~ParseModule(last.out.rewritten).ok

\* C2: no step of either converter turns a file whose text parses into one
\* whose text does not parse.
C2_NeverLessParseable ==
    [][\A f \in FileSet :
          \/ disk'[f] = disk[f]
          \/ ParseModule(disk[f]).ok => ParseModule(disk'[f]).ok]_vars

\* C2 witness: convert_file has rewritten a file that parsed, and a plan
\* of another file of the same walk was discarded by the re-parse
C2_Witness ==
    /\ last.called
    /\ last.out.writes = 1
    /\ disk[last.path] # last.before
    /\ ParseModule(last.before).ok
    /\ walk.warnings # <<>>

\* C3: a call of convert_file writes the file at most once, and only a
\* text that re-parsed and differs from the original; with an empty plan,
\* an unchanged text, a re-parse failure or a read error the file keeps
\* its text.
C3_WritesOnlyVerifiedChange ==
    last.called
    => /\ last.out.writes <= 1
       /\ (last.out.writes = 1
           => /\ ParseModule(last.out.rewritten).ok
              /\ last.out.rewritten # last.before
              /\ disk[last.path] = last.out.rewritten)
       /\ (\/ last.out.plan = <<>>
           \/ last.out.rewritten = last.before
           \/ ~ParseModule(last.out.rewritten).ok
           \/ last.mode = "none")
          => (last.out.writes = 0 /\ disk[last.path] = last.before)

\* C3 witness: the dynamic convert_file has written a file
C3_Witness ==
    /\ DynamicCall
    /\ last.out.writes = 1
    /\ last.out.plan # <<>>
    /\ disk[last.path] = last.out.rewritten

\* A file that lies below a directory of the given name
UnderDirectory(rel, dirname) == \E k \in 1..(Len(rel) - 1) : rel[k] = dirname

\* C4: convert_directory passes no file below a .git or __pycache__
\* directory to convert_file, whatever the root.
C4_NoArtifactFilePassed ==
    walk.converter = "dynamic"
    => \A k \in 1..Len(walk.passed) :
        /\ ~UnderDirectory(walk.passed[k], <<".","g","i","t">>)
        /\ ~UnderDirectory(walk.passed[k], PycacheName)

\* C5: for a name that is not skipped, the converted name is detected as
\* the style it was converted to.
C5_ConvertedDetectsAsTarget ==
    (probe.op = "convert" /\ ~should_skip(probe.name, prefs))
    => probe.detected = probe.style

\* C6: converting a converted name to the same style again changes nothing.
C6_ConvertIdempotent ==
    probe.op = "convert" => probe.again = probe.result

\* A name that starts and ends with two underscores
DunderWrapped(name) ==
    /\ Len(name) >= 5
    /\ StartsWith(name, <<"_","_">>)
    /\ EndsWith(name, <<"_","_">>)

\* C7: a reserved word, a double-underscore-wrapped name, or an all-caps
\* name under preserve_constants never needs conversion, whatever the kind.
C7_ProtectedNeverNeedsConversion ==
    (/\ probe.op = "needs"
     /\ \/ probe.name \in RESERVED
        \/ DunderWrapped(probe.name)
        \/ (prefs.preserve_constants /\ ConstantPattern(probe.name)))
    => ~probe.needs

\* The first record of the given name in a list of identifiers
RECURSIVE FirstOccurrence(_, _)
FirstOccurrence(identifiers, name) ==
    IF Head(identifiers).name = name THEN Head(identifiers)
    ELSE FirstOccurrence(Tail(identifiers), name)

\* C8: every entry of the plan comes from the first occurrence of its name
\* in extraction order: that occurrence needs conversion, and the new name
\* is the name in the target style of that occurrence's kind.
C8_FirstKindGoverns ==
    (DynamicCall /\ last.mode # "none")
    => \A e \in Range(last.out.plan) :
          LET first == FirstOccurrence(extract_identifiers(last.before), e.old)
          IN /\ needs_conversion(e.old, first.type, prefs)
             /\ e.new = convert_to_style(e.old, get_target_style(first.type, prefs))

\* C9: a file that does not parse yields no identifiers and is passed over
\* silently: no warning, the text kept, zero conversions.
C9_UnparseableSkippedSilently ==
    (DynamicCall /\ last.mode # "none" /\ ~ParseModule(last.before).ok)
    => /\ extract_identifiers(last.before) = <<>>
       /\ ~last.out.warned
       /\ disk[last.path] = last.before
       /\ last.out.count = 0

\* The latest call of convert_file met an I/O error: the file could not be
\* read, or the write of a verified, changed text failed
IOFailure ==
    /\ last.called
    /\ \/ last.mode = "none"
       \/ (last.mode = "ro" /\ last.out.reparsed /\ last.out.rewritten # last.before)

\* The sum of a sequence of numbers
RECURSIVE SumSeq(_)
SumSeq(s) == IF s = <<>> THEN 0 ELSE Head(s) + SumSeq(Tail(s))

\* The counts that the files before the latest one returned
EarlierCounts == SubSeq(walk.counts, 1, Len(walk.counts) - 1)

\* C10: a call of convert_file that meets an I/O error returns zero
\* conversions, and files_processed and total_conversions are what the
\* earlier files of the walk made them.
C10_IOFailureCountsNothing ==
    (DynamicCall /\ IOFailure)
    => /\ last.out.count = 0
       /\ walk.total_conversions = SumSeq(EarlierCounts)
       /\ walk.files_processed
            = Cardinality({k \in 1..Len(EarlierCounts) : EarlierCounts[k] > 0})

\* A dict in which a style field holds a value that is no NamingStyle
HasInvalidStyle(data) ==
    \E key \in DOMAIN data :
        /\ key \in {StyleKeys[k] : k \in 1..Len(StyleKeys)}
        /\ data[key] \notin NamingStyle

\* C11: a run of main whose config file holds an unknown style in one of
\* the seven style fields fails in the load with a ValueError: it gets no
\* preferences, goes no further than the load, and has written no file.
C11_InvalidPreferencesAbort ==
    (/\ main.pc # "none"
     /\ main.args.config = "file"
     /\ HasInvalidStyle(LoadedData(main.args.doc)))
    => /\ main.pc \in {"parsed", "raised"}
       /\ main.pc = "raised" => main.error = "ValueError"
       /\ main.naming_preferences = NoPreferences
       /\ main.written = <<>>

\* C11 witness: the load of a config file with an unknown style under the
\* "naming_preferences" key has raised
C11_Witness ==
    /\ main.pc = "raised"
    /\ main.error = "ValueError"
    /\ main.args.doc.wrapped
    /\ HasInvalidStyle(main.args.doc.naming_preferences)
    /\ main.written = <<>>

\* The files of the listing that the walk's exclusion test lets through
RECURSIVE NotExcluded(_, _, _)
NotExcluded(converter, root, files) ==
    IF files = <<>> THEN <<>>
    ELSE (IF (IF converter = "dynamic" THEN DynamicExcluded(PathStr(root, Head(files)))
              ELSE LegacyExcluded(PathStr(root, Head(files))))
          THEN <<>> ELSE <<Head(files)>>)
         \o NotExcluded(converter, root, Tail(files))

\* C12: a walk that has started returns its report, no call of convert_file
\* ends the walk with an exception, and at the return convert_file has been
\* called exactly once, in listing order, on every file that is not
\* excluded, whichever of them failed.
C12_WalkCompletes ==
    /\ [](pc # "raised")
    /\ [](pc = "returned"
          => /\ walk.passed = NotExcluded(walk.converter, walk.root, walk.python_files)
             /\ Len(walk.counts) = Len(walk.passed))
    /\ (pc = "walking" ~> pc = "returned")

\* C12 witness: a walk has returned its report after a file that failed
\* (read error, write error or a warning of the re-parse) and the files
\* after it were still passed to convert_file
C12_Witness ==
    /\ pc = "returned"
    /\ Len(walk.passed) >= 2
    /\ walk.passed[1] = FileA
    /\ \/ mode[FileA] # "rw"
       \/ walk.warnings = <<FileA>>

\* A name map as a function from the old names to the new ones; of two
\* entries for one old name the later counts
MapOf(conversions) ==
    [name \in {conversions[k].old : k \in 1..Len(conversions)} |->
       LET latest == CHOOSE k \in 1..Len(conversions) :
                       /\ conversions[k].old = name
                       /\ \A j \in (k + 1)..Len(conversions) : conversions[j].old # name
       IN conversions[latest].new]

\* The map f with the entries of g put over it
Override(f, g) ==
    [name \in DOMAIN f \cup DOMAIN g |-> IF name \in DOMAIN g THEN g[name] ELSE f[name]]

\* C13: in the report of a walk total_conversions is the sum of the counts
\* that the calls of convert_file returned, files_processed is the number
\* of calls with a count above zero, and each call's map is merged into the
\* aggregate map with its entries replacing earlier ones for the same old
\* name.
C13_ReportAggregates ==
    /\ [](/\ walk.total_conversions = SumSeq(walk.counts)
          /\ walk.files_processed
               = Cardinality({k \in 1..Len(walk.counts) : walk.counts[k] > 0})
          /\ walk.passed = <<>> => walk.all_conversions = <<>>)
    /\ [][last'.called /\ Len(walk'.passed) = Len(walk.passed) + 1
          => MapOf(walk'.all_conversions)
               = Override(MapOf(walk.all_conversions), MapOf(last'.out.conversions))]_vars

\* C13 witness: a walk has returned after a.py gave my_class -> myClass (a
\* function) and then b.py gave my_class -> MyClass (a class), and the
\* report holds the later entry
C13_Witness ==
    /\ pc = "returned"
    /\ Len(walk.passed) >= 2
    /\ walk.passed[1] = FileA
    /\ walk.passed[2] = FileB
    /\ disk[FileA] = <<<<"d","e","f"," ","m","y","C","l","a","s","s","(",")",":","p","a","s","s">>>>
    /\ [old |-> <<"m","y","_","c","l","a","s","s">>, new |-> <<"M","y","C","l","a","s","s">>] \in Range(walk.all_conversions)
    /\ walk.files_processed >= 2

\* A name of lowercase alphabetic words joined by single underscores
LowerWords(name) ==
    /\ name # <<>>
    /\ \A k \in 1..Len(name) : IsLowerChar(name[k]) \/ name[k] = "_"
    /\ name[1] # "_"
    /\ name[Len(name)] # "_"
    /\ \A k \in 1..(Len(name) - 1) : ~(name[k] = "_" /\ name[k + 1] = "_")

\* C14: for a name of lowercase words joined by single underscores the
\* camelCase and the PascalCase form convert back to the name with
\* to_snake_case; my_variable_name <-> myVariableName, my_class -> MyClass
\* and MyClass -> MY_CLASS.
C14_RoundTrip ==
    probe.op = "convert"
    => /\ (LowerWords(probe.name) /\ probe.style \in {"camelCase", "PascalCase"})
          => to_snake_case(probe.result) = probe.name
       /\ (probe.name = <<"m","y","_","v","a","r","i","a","b","l","e","_","n","a","m","e">> /\ probe.style = "camelCase")
          => probe.result = <<"m","y","V","a","r","i","a","b","l","e","N","a","m","e">>
       /\ (probe.name = <<"m","y","V","a","r","i","a","b","l","e","N","a","m","e">> /\ probe.style = "snake_case")
          => probe.result = <<"m","y","_","v","a","r","i","a","b","l","e","_","n","a","m","e">>
       /\ (probe.name = <<"m","y","_","c","l","a","s","s">> /\ probe.style = "PascalCase")
          => probe.result = <<"M","y","C","l","a","s","s">>
       /\ (probe.name = <<"M","y","C","l","a","s","s">> /\ probe.style = "SCREAMING_SNAKE_CASE")
          => probe.result = <<"M","Y","_","C","L","A","S","S">>

\* C14 witness: my_variable_name has been converted to camelCase and the
\* result converts back
C14_Witness ==
    /\ probe.op = "convert"
    /\ probe.style = "camelCase"
    /\ probe.name = <<"m","y","_","v","a","r","i","a","b","l","e","_","n","a","m","e">>
    /\ LowerWords(probe.name)
    /\ probe.result = <<"m","y","V","a","r","i","a","b","l","e","N","a","m","e">>
    /\ to_snake_case(probe.result) = probe.name

\* The string literals of a line, in order
StringLiterals(line) == SelectSeq(Tokenize(line, 1), LAMBDA t : t.k = "str")

\* The comment of a line from position i on: the text from the first "#"
\* that is outside a string literal
RECURSIVE CommentFrom(_, _)
CommentFrom(line, i) ==
    IF i > Len(line) THEN <<>>
    ELSE IF line[i] = "#" THEN SubSeq(line, i, Len(line))
    ELSE IF IsQuoteChar(line[i])
         THEN LET e == StringEnd(line, i + 1, line[i])
              IN IF e = 0 THEN <<>> ELSE CommentFrom(line, e + 1)
    ELSE CommentFrom(line, i + 1)

\* C15: the substitution leaves the string literals and the comment of
\* every line as they were.
C15_LiteralsUntouched ==
    probe.op = "substitute"
    => \A l \in 1..Len(probe.text) :
          /\ StringLiterals(probe.result[l]) = StringLiterals(probe.text[l])
          /\ CommentFrom(probe.result[l], 1) = CommentFrom(probe.text[l], 1)

\* The identifier tokens of a line: its maximal runs of word characters
RECURSIVE WordsFrom(_, _)
WordsFrom(line, i) ==
    IF i > Len(line) THEN <<>>
    ELSE IF IsWordChar(line[i])
         THEN <<SubSeq(line, i, WordEnd(line, i) - 1)>> \o WordsFrom(line, WordEnd(line, i))
    ELSE WordsFrom(line, i + 1)

\* C16: the substitution of an old name changes no identifier token other
\* than the old name itself: a token that only contains the old name, with
\* letters, digits or underscores next to it, is in the rewritten text as
\* it was, and a token that is the old name stays or becomes the new name.
C16_WholeTokensOnly ==
    probe.op = "substitute"
    => \A l \in 1..Len(probe.text) :
          LET before == WordsFrom(probe.text[l], 1)
              after == WordsFrom(probe.result[l], 1)
          IN /\ Len(after) = Len(before)
             /\ \A k \in 1..Len(before) :
                   IF before[k] = probe.old THEN after[k] \in {probe.old, probe.new}
                   ELSE after[k] = before[k]

\* C16 witness: a line with the old name as a token and inside a longer
\* identifier has been rewritten: the token was replaced, the longer
\* identifier is still there
C16_Witness ==
    /\ probe.op = "substitute"
    /\ probe.result # probe.text
    /\ \E l \in 1..Len(probe.text) :
          \E w \in Range(WordsFrom(probe.text[l], 1)) :
             /\ w # probe.old
             /\ Contains(w, probe.old)
             /\ w \in Range(WordsFrom(probe.result[l], 1))
             /\ probe.new \in Range(WordsFrom(probe.result[l], 1))

\* The letters of a name
Uppers(name) == {i \in 1..Len(name) : IsUpperChar(name[i])}
Lowers(name) == {i \in 1..Len(name) : IsLowerChar(name[i])}
Underscores(name) == {i \in 1..Len(name) : name[i] = "_"}

\* The six ordered rules of the style classifier: the styles of the rules
\* a name matches, in the order of the rules
MatchingRules(name) ==
    (IF Underscores(name) \cup Uppers(name) \cup {i \in 1..Len(name) : IsDigitChar(name[i])}
            = 1..Len(name) /\ 1 \in Uppers(name)
     THEN <<"SCREAMING_SNAKE_CASE">> ELSE <<>>)
    \o (IF 1 \in Uppers(name) /\ Underscores(name) = {} /\ Lowers(name) # {}
        THEN <<"PascalCase">> ELSE <<>>)
    \o (IF Underscores(name) # {} /\ Uppers(name) = {} /\ Lowers(name) # {}
        THEN <<"snake_case">> ELSE <<>>)
    \o (IF 1 \in Lowers(name) /\ Uppers(name) # {} /\ Underscores(name) = {}
        THEN <<"camelCase">> ELSE <<>>)
    \o (IF Uppers(name) = {} /\ Lowers(name) # {} /\ Underscores(name) = {}
        THEN <<"snake_case">> ELSE <<>>)
    \o (IF Underscores(name) # {} /\ ~(Uppers(name) = {} /\ Lowers(name) # {})
        THEN <<"snake_case">> ELSE <<>>)

FirstMatch(name) ==
    IF MatchingRules(name) = <<>> THEN NoStyle ELSE Head(MatchingRules(name))

\* C17 as stated: detect_style returns the style of the first of the six
\* rules that the name matches, and indeterminate when none matches, for
\* every identifier, one-character names included.
C17_FirstRuleWins ==
    probe.op = "detect" => probe.detected = FirstMatch(probe.name)

\* C17 amended: a name of fewer than two characters is indeterminate; for
\* every longer name detect_style returns the style of the first of the
\* six rules that the name matches, and indeterminate when none matches.
C17_FirstRuleWinsFromTwo ==
    probe.op = "detect"
    => probe.detected = IF Len(probe.name) < 2 THEN NoStyle ELSE FirstMatch(probe.name)

\* C17 witness: detect_style was called with a one-letter capital, which
\* the first rule matches, and found nothing
C17_Witness ==
    /\ probe.op = "detect"
    /\ Len(probe.name) = 1
    /\ MatchingRules(probe.name) # <<>>
    /\ Head(MatchingRules(probe.name)) = "SCREAMING_SNAKE_CASE"
    /\ probe.detected = NoStyle

\* A name in snake_case with every run of capitals kept as one word: a
\* separator goes before a capital that follows a lowercase letter or a
\* digit, and before the last capital of a run that a lowercase letter
\* follows; then everything is lowercased
RECURSIVE CollapsedFrom(_, _)
CollapsedFrom(name, i) ==
    IF i > Len(name) THEN <<>>
    ELSE LET afterLower == i > 1 /\ (IsLowerChar(name[i - 1]) \/ IsDigitChar(name[i - 1]))
             endsRun == /\ i > 1 /\ IsUpperChar(name[i - 1])
                        /\ i < Len(name) /\ IsLowerChar(name[i + 1])
         IN (IF IsUpperChar(name[i]) /\ (afterLower \/ endsRun)
             THEN <<"_", LowerChar(name[i])>> ELSE <<LowerChar(name[i])>>)
            \o CollapsedFrom(name, i + 1)

\* C18: to_snake_case keeps a run of consecutive capitals as one word: it
\* puts a separator only before the last capital of a run that a
\* capitalized word follows (XMLParser -> xml_parser) and lowercases an
\* all-caps word without separators between its letters (MY_VAR -> my_var).
C18_CapitalRunsCollapse ==
    (/\ probe.op = "convert"
     /\ probe.style = "snake_case"
     /\ \E i \in 1..(Len(probe.name) - 1) :
           IsUpperChar(probe.name[i]) /\ IsUpperChar(probe.name[i + 1]))
    => probe.result = CollapsedFrom(probe.name, 1)

\* The function definitions of a body with the kind that the place of each
\* gives it: method for a definition that is a statement of a class body,
\* function for every other one
RECURSIVE DefinitionKinds(_, _)
DefinitionKinds(body, parent) ==
    IF body = <<>> THEN <<>>
    ELSE LET st == Head(body) IN
         (IF st.node = "ClassDef" THEN DefinitionKinds(st.body, "class")
          ELSE IF st.node = "FunctionDef"
          THEN <<[name |-> st.name,
                  type |-> IF parent = "class" THEN "method" ELSE "function"]>>
               \o DefinitionKinds(st.body, "function")
          ELSE <<>>)
         \o DefinitionKinds(Tail(body), parent)

\* C19: extract_identifiers gives a function definition the kind method
\* exactly when its nearest enclosing definition is a class, and the kind
\* function otherwise, also inside the body of a method.
C19_MethodOnlyInClassBody ==
    (probe.op = "extract" /\ ParseModule(probe.text).ok)
    => SelectSeq(probe.identifiers, LAMBDA d : d.type \in {"function", "method"})
       = DefinitionKinds(ParseModule(probe.text).body, "module")

\* The names of the parameters that are to be recorded for the function
\* definitions of a body: every parameter of every kind, but for the first
\* parameter of a method
RECURSIVE FormalParameters(_, _)
FormalParameters(body, parent) ==
    IF body = <<>> THEN <<>>
    ELSE LET st == Head(body) IN
         (IF st.node = "ClassDef" THEN FormalParameters(st.body, "class")
          ELSE IF st.node = "FunctionDef"
          THEN [k \in 1..(Len(st.args) - (IF parent = "class" /\ st.args # <<>> THEN 1 ELSE 0)) |->
                   st.args[k + (IF parent = "class" /\ st.args # <<>> THEN 1 ELSE 0)].name]
               \o FormalParameters(st.body, "function")
          ELSE <<>>)
         \o FormalParameters(Tail(body), parent)

\* C20: extract_identifiers records every formal parameter of every
\* function and method definition (keyword-only, *args and **kwargs
\* included) with the kind argument, and leaves out only the receiver of a
\* method.
C20_AllParametersRecorded ==
    (probe.op = "extract" /\ ParseModule(probe.text).ok)
    => LET arguments == SelectSeq(probe.identifiers, LAMBDA d : d.type = "argument")
       IN [k \in 1..Len(arguments) |-> arguments[k].name]
          = FormalParameters(ParseModule(probe.text).body, "module")

\* The kinds that the assignments of a body are to be recorded with: every
\* plain name on the left of an assignment, also inside a tuple, as constant,
\* attribute or variable, and every attribute target as attribute
RECURSIVE AssignedKinds(_, _, _)
AssignedKinds(body, in_class, in_function) ==
    IF body = <<>> THEN <<>>
    ELSE LET st == Head(body)
             plain(id) == [name |-> id,
                           type |-> IF ConstantPattern(id) THEN "constant"
                                    ELSE IF in_class /\ ~in_function THEN "attribute"
                                    ELSE "variable"]
         IN (IF st.node = "ClassDef" THEN AssignedKinds(st.body, TRUE, in_function)
             ELSE IF st.node = "FunctionDef" THEN AssignedKinds(st.body, in_class, TRUE)
             ELSE IF st.node \in {"Assign", "AnnAssign"}
             THEN IF st.target = "Tuple"
                  THEN [k \in 1..Len(st.elts) |-> plain(st.elts[k])]
                  ELSE IF st.target = "Attribute"
                  THEN <<[name |-> st.id, type |-> "attribute"]>>
                  ELSE <<plain(st.id)>>
             ELSE <<>>)
            \o AssignedKinds(Tail(body), in_class, in_function)

\* C21: extract_identifiers records every plain name on the left of a
\* simple or annotated assignment, names inside tuple targets included, as
\* constant, attribute or variable by its spelling and its place, and
\* every assignment through an attribute target as attribute.
C21_AssignmentTargetsRecorded ==
    (probe.op = "extract" /\ ParseModule(probe.text).ok)
    => SelectSeq(probe.identifiers,
                 LAMBDA d : d.type \in {"constant", "attribute", "variable"})
       = AssignedKinds(ParseModule(probe.text).body, FALSE, FALSE)

\* C22: the plan that convert_file applies, entry after entry, is in
\* non-increasing order of the length of the old names.
C22_LongestFirst ==
    probe.op \in {"convert_file", "convert_again"}
    => /\ last.out.rewritten = ApplyConversions(last.before, last.out.plan)
       /\ \A i, j \in 1..Len(last.out.plan) :
             i < j => Len(last.out.plan[i].old) >= Len(last.out.plan[j].old)

\* C22 witness: a call has built a map whose first entry is the shorter
\* name and has applied the longer one first
C22_Witness ==
    /\ probe.op = "convert_file"
    /\ Len(last.out.plan) = 2
    /\ Len(last.out.plan[1].old) > Len(last.out.plan[2].old)
    /\ last.out.conversions # <<>>
    /\ last.out.conversions[1] = last.out.plan[2]
    /\ last.out.writes = 1

\* The preference field that holds the target style of a kind
FieldOfKind ==
    [variable |-> "variables", function |-> "functions", class |-> "classes",
     method |-> "methods", argument |-> "arguments", attribute |-> "attributes",
     constant |-> "constants"]

\* C23: needs_conversion(name, kind) is true exactly when the name is not
\* skipped and its detected style differs from the target style of the
\* kind, which is the preference field of the kind and snake_case for the
\* kind unknown.
C23_NeedsIffStyleDiffers ==
    probe.op = "needs"
    => LET target == IF probe.kind = "unknown" THEN "snake_case"
                     ELSE prefs[FieldOfKind[probe.kind]]
       IN probe.needs = (/\ ~should_skip(probe.name, prefs)
                         /\ detect_style(probe.name) # target)

\* C23 witness: a name that is not skipped and is not in snake_case was
\* found to need conversion for the kind unknown
C23_Witness ==
    /\ probe.op = "needs"
    /\ probe.kind = "unknown"
    /\ ~should_skip(probe.name, prefs)
    /\ detect_style(probe.name) = "camelCase"
    /\ probe.needs

\* Number of underscores a name starts with
RECURSIVE LeadingUnderscores(_)
LeadingUnderscores(name) ==
    IF name # <<>> /\ Head(name) = "_" THEN 1 + LeadingUnderscores(Tail(name)) ELSE 0

\* The digits of a name, in order
DigitsOf(name) == SelectSeq(name, IsDigitChar)

\* C24: convert_to_style leaves the leading underscores and the digits of
\* a name as they are: the output starts with as many underscores as the
\* name, and its digits are the digits of the name in the same order.
C24_UnderscoresAndDigitsKept ==
    probe.op = "convert"
    => /\ LeadingUnderscores(probe.result) = LeadingUnderscores(probe.name)
       /\ DigitsOf(probe.result) = DigitsOf(probe.name)

\* C28: for a legal identifier that is not skipped, convert_to_style gives
\* a non-empty legal identifier: it does not start with a digit.
C28_ResultIsIdentifier ==
    (probe.op = "convert" /\ ~should_skip(probe.name, prefs))
    => /\ probe.result # <<>>
       /\ ~IsDigitChar(probe.result[1])
       /\ \A i \in 1..Len(probe.result) : IsWordChar(probe.result[i])

\* C30: detect_style classifies every identifier of two or more
\* characters as one of the four styles; indeterminate is returned for
\* empty and one-character names only.
C30_LongNamesClassified ==
    probe.op = "detect"
    => (probe.detected = NoStyle <=> Len(probe.name) < 2)

\* C30 witness: a name of two characters that only the last rule matches
\* (an underscore, no lowercase letter, not all-caps) was classified
C30_Witness ==
    /\ probe.op = "detect"
    /\ Len(probe.name) = 2
    /\ probe.name[1] = "_"
    /\ IsDigitChar(probe.name[2])
    /\ probe.detected = "snake_case"

\* The identifier tokens of a text
WordsOfText(text) == UNION {Range(WordsFrom(text[l], 1)) : l \in 1..Len(text)}

\* C25: the plan of convert_file is collision-safe: no two entries have
\* the same new name, and no new name is an identifier that the file
\* already holds.
C25_PlanCollisionSafe ==
    probe.op \in {"convert_file", "convert_again"}
    => LET plan == last.out.plan IN
       /\ \A i, j \in 1..Len(plan) : i # j => plan[i].new # plan[j].new
       /\ \A i \in 1..Len(plan) : plan[i].new \notin WordsOfText(last.before)

\* The plan applied to a line in one pass over the original text: at every
\* position the entry whose pattern matches there is applied, and the text
\* it writes is not looked at again
RECURSIVE SimultaneousFrom(_, _, _)
SimultaneousFrom(line, i, plan) ==
    IF i > Len(line) THEN <<>>
    ELSE LET hits == {k \in 1..Len(plan) : PatternMatchesAt(line, i, plan[k].old)} IN
         IF hits = {} THEN <<line[i]>> \o SimultaneousFrom(line, i + 1, plan)
         ELSE LET k == CHOOSE h \in hits : \A g \in hits : h <= g
              IN plan[k].new \o SimultaneousFrom(line, i + Len(plan[k].old), plan)

\* C26: the text that the substitutions of convert_file produce one after
\* another is the original text with all entries of the plan applied at
\* once: no later substitution rewrites what an earlier one has written.
C26_ActsSimultaneously ==
    probe.op \in {"convert_file", "convert_again"}
    => last.out.rewritten
       = [l \in 1..Len(last.before) |-> SimultaneousFrom(last.before[l], 1, last.out.plan)]

\* C27: a second call of convert_file, with the same preferences, on the
\* file that the first call has rewritten finds nothing to do: its plan is
\* empty, it returns zero conversions and the file stays as it is.
C27_SecondPassIsFixpoint ==
    probe.op = "convert_again"
    => /\ last.out.plan = <<>>
       /\ last.out.count = 0
       /\ last.out.content = last.before

\* C29: every entry of a plan of convert_file has an old name that is not
\* skipped, a new name that is not empty and differs from the old one, and
\* an extracted occurrence of the old name whose kind has a target style
\* other than the detected style of the name.
C29_PlanEntriesJustified ==
    probe.op \in {"convert_file", "convert_again"}
    => \A k \in 1..Len(last.out.plan) :
          LET entry == last.out.plan[k] IN
          /\ ~should_skip(entry.old, prefs)
          /\ entry.new # <<>>
          /\ entry.new # entry.old
          /\ \E info \in Range(extract_identifiers(last.before)) :
                /\ info.name = entry.old
                /\ prefs[FieldOfKind[info.type]] # detect_style(entry.old)

\* C29 witness: a call has built a plan for a file that also holds a name
\* that needs conversion but whose conversion is the name itself, and has
\* left that name out
C29_Witness ==
    /\ probe.op = "convert_file"
    /\ last.out.plan # <<>>
    /\ last.out.writes = 1
    /\ \E info \in Range(extract_identifiers(last.before)) :
          /\ needs_conversion(info.name, info.type, prefs)
          /\ convert_to_style(info.name, get_target_style(info.type, prefs)) = info.name
          /\ ~InMap(last.out.plan, info.name)

====
